---------------------------- MODULE Spec2Model ----------------------------
(***************************************************************************)
(* Verification model of the multi-country company identifier extractors   *)
(* (arKap app_vat).  Strings are sequences of one-character strings, a     *)
(* Python index i is the TLA+ index i+1, similarity scores are integer     *)
(* percentages (0.5 is 50), and Python's None is the string "None" where   *)
(* the value it stands for is a string, or a flag of a record otherwise.   *)
(***************************************************************************)
EXTENDS Integers, Sequences, FiniteSets, TLC

VARIABLES
  vorig,      \* validators: the string first handed to the validators
  vin,        \* validators: the string now under validation
  vedits,     \* validators: number of single-character edits made to vorig
  vout,       \* validators: results of the four validators on vin
  regCountry, \* registry search: jurisdiction of the search function called
  regHttp,    \* registry search: what the HTTP request of the search does
  regList,    \* registry search: candidates in the order the registry lists them
  regPc,      \* registry search: "call" before the search, "done" after it
  regSel,     \* registry search: what the search function returned
  oMode,      \* orchestrator: "single" (process_single_company) or "batch"
  oArgs,      \* orchestrator: arguments of the single call
  df,         \* orchestrator: rows of the DataFrame of the batch
  cols,       \* orchestrator: whether a website / country column was detected
  idx,        \* orchestrator: number of resolutions finished
  results,    \* orchestrator: outcomes, in the order they were appended
  log,        \* orchestrator: per resolution, the extractor called and the fetches
  nlPc,       \* NL strategy: position in process_single_dutch_company
  nlWebsite,  \* NL strategy: the website of the company, normalised
  nlResult,   \* NL strategy: the result dict
  nlPath,     \* NL strategy: number of website paths scanned
  nlFound,    \* NL strategy: found_codes and found_legal_names of the scan
  nlTried,    \* NL strategy: number of website legal names searched (step 3)
  nlFetches,  \* NL strategy: number of page loads and searches made
  stCountry,  \* UK / CH / FR strategy: "GB" or "CH"
  stUrl,      \* UK / CH / FR strategy: company_url
  stPc,       \* UK / CH / FR strategy: position in process_company_with_*
  stResult,   \* UK / CH / FR strategy: the result dict
  stPath,     \* FR strategy: number of website paths scanned
  stFound,    \* FR strategy: found_siren and found_legal_names of the scan
  stFetches,  \* UK / CH / FR strategy: the requests sent so far
  stSearch,   \* UK / CH / FR strategy: the last registry answer (request, listing)
  fCountry,   \* page fetch: the extractor whose fetch functions run ("FR", "NL")
  fDriver,    \* page fetch: self.driver, "None" or "driver"
  fPath,      \* page fetch: number of paths search_website_for_info has fetched
  fNet,       \* page fetch: what the network and the browser did on the last path
  fReq,       \* page fetch: what fetch_with_requests returned on the last path
  fSel,       \* page fetch: what fetch_with_selenium returned on the last path
  tQuery,     \* repeated resolution: the query resolved twice
  tFix,       \* repeated resolution: the registry and page fixtures
  tDriver,    \* repeated resolution: self.driver of the extractor instance
  tResults,   \* repeated resolution: the outcomes returned so far
  sKind,      \* similarity: which extractor's similarity is called
  sA,         \* similarity: the first argument
  sB,         \* similarity: the second argument
  sScore,     \* similarity: the value returned, as matches and total length
  wCountry,   \* website scan: the extractor whose website step runs
  wPc,        \* website scan: "scan", "lookup" (second registry lookup) or "done"
  wFetched,   \* website scan: the paths fetched so far, in order
  wPages,     \* website scan: what each fetched path gave
  wFound,     \* website scan: the results accumulated by search_website_for_info
  wResult,    \* website scan: the result dict of the strategy
  wLookups,   \* website scan: the names looked up in the registry afterwards
  lnCountry,  \* legal names: the extractor whose Legal Name Extractor is called
  lnDoc,      \* legal names: what the page carries, source by source
  lnOut,      \* legal names: what the call returned or raised
  lnFound,    \* legal names: found_legal_names of the strategy after the page
  bCountry,   \* the country of the extractor instance whose batch method is called
  bSelf,      \* self.results of that instance
  bCalls,     \* the batch calls made on the instance, each with what it returned
  pPc,        \* the position of process_company_improved
  pUrl,       \* whether a company_url was given
  pRuns,      \* how often each strategy has been run for the company
  pDepth,     \* the nesting depth of search_einforma_selenium_improved
  pN,         \* len(company_results) of the browser search
  pI,         \* the index of the result being tried
  pResult,    \* the result of process_company_improved
  aNow,       \* datetime.now(), in minutes
  aTicks,     \* how often the clock has advanced
  aCodes,     \* st.session_state.auth_codes
  aAuth,      \* st.session_state.authenticated, user_email and auth_time
  aLast,      \* the last call on the AuthenticationManager and what it returned
  aDead,      \* the stored codes that have authenticated or collected three failures
  aIssued     \* the number of store_code calls so far

valV == <<vorig, vin, vedits, vout>>
regV == <<regCountry, regHttp, regList, regPc, regSel>>
orcV == <<oMode, oArgs, df, cols, idx, results, log>>
nlV == <<nlPc, nlWebsite, nlResult, nlPath, nlFound, nlTried, nlFetches>>

stV == <<stCountry, stUrl, stPc, stResult, stPath, stFound, stFetches, stSearch>>

fetV == <<fCountry, fDriver, fPath, fNet, fReq, fSel>>

twV == <<tQuery, tFix, tDriver, tResults>>

simV == <<sKind, sA, sB, sScore>>

scnV == <<wCountry, wPc, wFetched, wPages, wFound, wResult, wLookups>>

namV == <<lnCountry, lnDoc, lnOut, lnFound>>

batV == <<bCountry, bSelf, bCalls>>

ptV == <<pPc, pUrl, pRuns, pDepth, pN, pI, pResult>>

autV == <<aNow, aTicks, aCodes, aAuth, aLast, aDead, aIssued>>

vars == <<valV, regV, orcV, nlV, stV, fetV, twV, simV, scnV, namV, batV, ptV, autV>>

-----------------------------------------------------------------------------
(* Characters and Python's str / int primitives                             *)

AsciiDigits == {"0", "1", "2", "3", "4", "5", "6", "7", "8", "9"}

\* U+0663 ARABIC-INDIC DIGIT THREE: str.isdigit() is True and int() gives 3.
ArabicThree == "ar3"
\* U+00B2 SUPERSCRIPT TWO: str.isdigit() is True and int() raises ValueError.
SuperTwo == "sup2"

Letters == {"A", "b"}
Chars == AsciiDigits \cup {ArabicThree, SuperTwo} \cup Letters

\* str.isdigit() of one character
CharIsDigit(c) == c \in AsciiDigits \cup {ArabicThree, SuperTwo}

\* whether int(c) returns (it raises ValueError otherwise)
CharIntOk(c) == c \in AsciiDigits \cup {ArabicThree}

\* int(c) of one character for which int() returns
CharInt(c) ==
  CASE c = "0" -> 0 [] c = "1" -> 1 [] c = "2" -> 2 [] c = "3" -> 3
    [] c = "4" -> 4 [] c = "5" -> 5 [] c = "6" -> 6 [] c = "7" -> 7
    [] c = "8" -> 8 [] c = "9" -> 9 [] c = ArabicThree -> 3

\* str.isdigit(): false for the empty string, true iff every character is a digit
isdigit(s) == Len(s) > 0 /\ \A i \in 1..Len(s) : CharIsDigit(s[i])

\* str.upper() on the model's alphabet
CharUpper(c) == IF c = "b" THEN "B" ELSE c
upper(s) == [i \in 1..Len(s) |-> CharUpper(s[i])]

\* a Python str argument: none is TRUE for None
Str(s) == [none |-> FALSE, s |-> s]
NoneStr == [none |-> TRUE, s |-> <<>>]

\* Python truthiness of an optional string: None and "" are falsy
Truthy(x) == ~x.none /\ Len(x.s) > 0

PyBool(b) == IF b THEN "True" ELSE "False"

-----------------------------------------------------------------------------
(* DutchKvKExtractor validators (new_vat_extractor_nl.py)                   *)

validate_kvk_number(k) ==
  IF ~Truthy(k) \/ Len(k.s) # 8 \/ ~isdigit(k.s) THEN "False"
  ELSE PyBool(k.s[1] # "0")

\* digits[i] * (9 - i), the term of the checksum for Python index i
RsinTerm(digits, i) == digits[i] * (9 - i)

\* sum(digits[i] * (9 - i) for i in range(n))
RECURSIVE RsinSum(_, _)
RsinSum(digits, n) ==
  IF n = 0 THEN 0 ELSE RsinSum(digits, n - 1) + RsinTerm(digits, n - 1)

validate_rsin_number(r) ==
  IF ~Truthy(r) \/ Len(r.s) # 9 \/ ~isdigit(r.s) THEN "False"
  ELSE IF \E i \in 1..9 : ~CharIntOk(r.s[i]) THEN "ValueError"
  ELSE LET digits == [i \in 0..8 |-> CharInt(r.s[i + 1])]
           checksum == RsinSum(digits, 8) % 11
       IN IF checksum < 2 THEN PyBool(digits[8] = checksum)
          ELSE PyBool(digits[8] = 11 - checksum)

validate_btw_number(b) ==
  IF ~Truthy(b) \/ Len(b.s) # 9 \/ ~isdigit(b.s) THEN "False"
  ELSE validate_rsin_number(b)

\* re.match(r'^[A-Z0-9]{20}$', lei_code.upper()) is not None
LeiChars == AsciiDigits \cup {"A", "B"}
validate_lei_code(l) ==
  IF ~Truthy(l) \/ Len(l.s) # 20 THEN "False"
  ELSE PyBool(\A i \in 1..20 : upper(l.s)[i] \in LeiChars)

-----------------------------------------------------------------------------
(* Specification SpecVal: the validators applied to bounded inputs          *)

MaxEdits == 1

D(a, b, c, d, e, f, g, h, i) == <<a, b, c, d, e, f, g, h, i>>

\* nine-digit strings the validators are first handed: accepted ones with
\* checksum 0, 1, 10 and 2, and a rejected one
RsinBases ==
  { D("0","0","0","0","0","0","4","0","1"),    \* sum 12, checksum 1
    D("1","0","0","0","0","0","4","0","1"),    \* sum 21, checksum 10
    D("0","0","0","0","0","0","0","0","0"),    \* sum 0, checksum 0
    D("1","2","3","4","5","6","7","8","2"),    \* sum 156, checksum 2 : rejected
    D("0","0","0","0","0","0","0","1","9") }   \* sum 2, checksum 2

ValInputs ==
  {Str(s) : s \in RsinBases} \cup {NoneStr, Str(<<>>)}

Results(x) ==
  [ kvk |-> validate_kvk_number(x), rsin |-> validate_rsin_number(x),
    btw |-> validate_btw_number(x), lei |-> validate_lei_code(x) ]

IdleVal ==
  /\ vorig = NoneStr /\ vin = NoneStr /\ vedits = 0 /\ vout = Results(NoneStr)

IdleReg ==
  /\ regCountry = "" /\ regHttp = "" /\ regList = <<>> /\ regPc = "idle"
  /\ regSel = [has |-> FALSE, id |-> <<>>, name |-> "None"]

IdleOrc ==
  /\ oMode = "idle" /\ oArgs = [country_code |-> "", website |-> ""]
  /\ df = <<>> /\ cols = [website |-> FALSE, country |-> FALSE]
  /\ idx = 0 /\ results = <<>> /\ log = <<>>

IdleNl ==
  /\ nlPc = "idle" /\ nlWebsite = "" /\ nlResult = [status |-> "idle"]
  /\ nlPath = 0 /\ nlFound = [status |-> "idle"] /\ nlTried = 0 /\ nlFetches = 0

IdleSt ==
  /\ stCountry = "" /\ stUrl = "" /\ stPc = "idle"
  /\ stResult = [status |-> "idle"] /\ stFetches = <<>>
  /\ stPath = 0 /\ stFound = [siren |-> <<>>, names |-> <<>>]
  /\ stSearch = [http |-> "", listing |-> <<>>]

IdleSim ==
  /\ sKind = "" /\ sA = <<>> /\ sB = <<>> /\ sScore = [called |-> FALSE]

IdleTw ==
  /\ tQuery = [kind |-> "idle"] /\ tFix = [kind |-> "idle"]
  /\ tDriver = "None" /\ tResults = <<>>

IdleScn ==
  /\ wCountry = "" /\ wPc = "idle" /\ wFetched = <<>> /\ wPages = <<>>
  /\ wFound = [names |-> <<>>] /\ wResult = [status |-> "idle"]
  /\ wLookups = <<>>

IdleNam ==
  /\ lnCountry = "" /\ lnDoc = [kind |-> "idle"] /\ lnOut = [called |-> FALSE]
  /\ lnFound = <<>>

IdleBat ==
  /\ bCountry = "" /\ bSelf = <<>> /\ bCalls = <<>>

IdlePt ==
  /\ pPc = "idle" /\ pUrl = FALSE /\ pRuns = <<>> /\ pDepth = 0 /\ pN = 0 /\ pI = 0
  /\ pResult = [status |-> ""]

IdleAut ==
  /\ aNow = 0 /\ aTicks = 0 /\ aCodes = <<>> /\ aAuth = [authenticated |-> FALSE]
  /\ aLast = [op |-> "idle"] /\ aDead = {} /\ aIssued = 0

IdleFet ==
  /\ fCountry = "" /\ fDriver = "None" /\ fPath = 0
  /\ fNet = [req |-> "idle"] /\ fReq = [called |-> FALSE] /\ fSel = [called |-> FALSE]

InitVal ==
  /\ IdleReg /\ IdleOrc /\ IdleNl /\ IdleSt /\ IdleFet /\ IdleTw /\ IdleSim /\ IdleScn /\ IdleNam /\ IdleBat /\ IdlePt /\ IdleAut
  /\ vorig \in ValInputs
  /\ vin = vorig
  /\ vedits = 0
  /\ vout = Results(vorig)

\* replace the character at Python index i by another character
ReplaceChar ==
  /\ ~vin.none /\ vedits < MaxEdits
  /\ \E i \in 1..Len(vin.s), c \in Chars :
       /\ c # vin.s[i]
       /\ vin' = Str([vin.s EXCEPT ![i] = c])
  /\ vedits' = vedits + 1
  /\ vout' = Results(vin')
  /\ UNCHANGED <<vorig, regV, orcV, nlV, stV, fetV, twV, simV, scnV, namV, batV, ptV, autV>>

\* drop the last character (a string one too short)
DropChar ==
  /\ ~vin.none /\ vedits < MaxEdits /\ Len(vin.s) > 0
  /\ vin' = Str(SubSeq(vin.s, 1, Len(vin.s) - 1))
  /\ vedits' = vedits + 1
  /\ vout' = Results(vin')
  /\ UNCHANGED <<vorig, regV, orcV, nlV, stV, fetV, twV, simV, scnV, namV, batV, ptV, autV>>

\* append a character (a string one too long)
AppendChar ==
  /\ ~vin.none /\ vedits < MaxEdits
  /\ \E c \in Chars : vin' = Str(Append(vin.s, c))
  /\ vedits' = vedits + 1
  /\ vout' = Results(vin')
  /\ UNCHANGED <<vorig, regV, orcV, nlV, stV, fetV, twV, simV, scnV, namV, batV, ptV, autV>>

NextVal == ReplaceChar \/ DropChar \/ AppendChar

SpecVal == InitVal /\ [][NextVal]_vars

\* positions (TLA+ indices) at which two strings of equal length differ
DiffPositions(a, b) == {i \in 1..Len(a) : a[i] # b[i]}

\* a decimal digit: int() gives its value
IsDecimalDigit(c) == CharIntOk(c)

\* the acceptance condition as the specification states it, written out
CheckDigitOk(s) ==
  LET d(i) == CharInt(s[i + 1])
      c == (9 * d(0) + 8 * d(1) + 7 * d(2) + 6 * d(3) + 5 * d(4) + 4 * d(5)
            + 3 * d(6) + 2 * d(7)) % 11
  IN  IF c < 2 THEN d(8) = c ELSE d(8) = 11 - c

SpecAcceptsRsin(x) ==
  /\ ~x.none
  /\ Len(x.s) = 9
  /\ \A i \in 1..9 : IsDecimalDigit(x.s[i])
  /\ CheckDigitOk(x.s)

\* C8: validate_rsin_number and validate_btw_number return True exactly for
\* strings of 9 decimal digits whose last digit is the weighted checksum
\* (c if c < 2, else 11 - c), and return False for every other string.
C8_RsinAcceptedIffChecksum ==
  /\ vout.rsin = PyBool(SpecAcceptsRsin(vin))
  /\ vout.btw = PyBool(SpecAcceptsRsin(vin))

\* C9: replacing exactly one digit of an accepted 9-digit string by a
\* different digit gives a string validate_rsin_number rejects.
C9_SingleDigitChangeRejected ==
  ( /\ validate_rsin_number(vorig) = "True"
    /\ ~vin.none /\ Len(vin.s) = 9
    /\ Cardinality(DiffPositions(vorig.s, vin.s)) = 1
    /\ \A i \in DiffPositions(vorig.s, vin.s) : vin.s[i] \in AsciiDigits )
  => vout.rsin = "False"

-----------------------------------------------------------------------------
(* Specification SpecReg: candidate selection of the registry searches      *)

\* similarity thresholds of the three searches, in percent
FrThreshold == 50
UkThreshold == 60
DeThreshold == 60
\* company_links[:5]
DeMaxLinks == 5

MaxCands == 6

\* a registry entry: its identifier, its listed name, and the similarity of
\* that name to the name searched for
Cand(id, name, sim) == [id |-> id, name |-> name, sim |-> sim]

CandPool ==
  { Cand(<<"9", "0">>, "n90", 90), Cand(<<"6", "5", "1">>, "n65a", 65), Cand(<<"6", "5", "2">>, "n65b", 65),
    Cand(<<"6", "2">>, "n62", 62), Cand(<<"5", "5">>, "n55", 55), Cand(<<"0">>, "", 0) }

Range(f) == {f[i] : i \in DOMAIN f}

\* registry listings: every order of every choice of distinct entries
CandLists ==
  UNION { {l \in [1..n -> CandPool] : \A i, j \in 1..n : l[i] = l[j] => i = j}
          : n \in 0..(IF MaxCands < Cardinality(CandPool) THEN MaxCands
                      ELSE Cardinality(CandPool)) }

HttpOutcomes == {"ok", "status", "raise"}

NoSel == [has |-> FALSE, id |-> <<>>, name |-> "None"]
Sel(id, name) == [has |-> TRUE, id |-> id, name |-> name]

\* the loop without the minimum threshold
RECURSIVE BestMatchNoThreshold(_, _, _, _)
BestMatchNoThreshold(cands, k, threshold, best) ==
  IF k > Len(cands) THEN best
  ELSE LET r == cands[k]
       IN BestMatchNoThreshold(cands, k + 1, threshold,
            IF r.sim > best.score
            THEN [found |-> TRUE, match |-> r, score |-> r.sim]
            ELSE best)

\* for result in results: if score > best_score and score > threshold:
\*     best_match = result; best_score = score
RECURSIVE BestMatchLoop(_, _, _, _)
BestMatchLoop(cands, k, threshold, best) ==
  IF k > Len(cands) THEN best
  ELSE LET r == cands[k]
       IN BestMatchLoop(cands, k + 1, threshold,
            IF r.sim > best.score /\ r.sim > threshold
            THEN [found |-> TRUE, match |-> r, score |-> r.sim]
            ELSE best)

NoBest == [found |-> FALSE, match |-> Cand(<<>>, "None", 0), score |-> 0]

\* for link in company_links: if similarity > 0.6: return company_number
RECURSIVE FirstAboveLoop(_, _, _)
FirstAboveLoop(links, k, threshold) ==
  IF k > Len(links) THEN NoBest
  ELSE IF links[k].sim > threshold
       THEN [found |-> TRUE, match |-> links[k], score |-> links[k].sim]
       ELSE FirstAboveLoop(links, k + 1, threshold)

\* FrenchSIRENExtractor.search_annuaire_entreprises: (siren, legal_name)
FrSearch(http, cands) ==
  IF http # "ok" \/ Len(cands) = 0 THEN NoSel
  ELSE IF Len(cands) = 1 THEN Sel(cands[1].id, cands[1].name)
  ELSE LET best == BestMatchLoop(cands, 1, FrThreshold, NoBest)
       IN IF best.found THEN Sel(best.match.id, best.match.name) ELSE NoSel

\* UKCompanyNumberExtractor.search_companies_house_by_name: company_number
UkSearch(http, links) ==
  IF http # "ok" THEN NoSel
  ELSE LET first == FirstAboveLoop(links, 1, UkThreshold)
       IN IF first.found THEN Sel(first.match.id, "None") ELSE NoSel

Min2(a, b) == IF a < b THEN a ELSE b

\* GermanTaxExtractor.search_handelsregister: (reg_numbers, legal_name);
\* reg_numbers comes from the detail page of the selected link
DeSearch(http, links, detail) ==
  IF http # "ok" \/ Len(links) = 0 THEN NoSel
  ELSE LET best == BestMatchLoop(SubSeq(links, 1, Min2(Len(links), DeMaxLinks)),
                                 1, DeThreshold, NoBest)
       IN IF best.found /\ detail = "ok" THEN Sel(<<"H", "R", "B">>, best.match.name)
          ELSE NoSel

InitReg ==
  /\ IdleVal /\ IdleOrc /\ IdleNl /\ IdleSt /\ IdleFet /\ IdleTw /\ IdleSim /\ IdleScn /\ IdleNam /\ IdleBat /\ IdlePt /\ IdleAut
  /\ regCountry \in {"FR", "GB", "DE"}
  /\ regList \in CandLists
  /\ regHttp = ""
  /\ regPc = "call"
  /\ regSel = NoSel

search_annuaire_entreprises ==
  /\ regPc = "call" /\ regCountry = "FR"
  /\ \E http \in HttpOutcomes :
       /\ regHttp' = http
       /\ regSel' = FrSearch(http, regList)
  /\ regPc' = "done"
  /\ UNCHANGED <<regCountry, regList, valV, orcV, nlV, stV, fetV, twV, simV, scnV, namV, batV, ptV, autV>>

search_companies_house_by_name ==
  /\ regPc = "call" /\ regCountry = "GB"
  /\ \E http \in HttpOutcomes :
       /\ regHttp' = http
       /\ regSel' = UkSearch(http, regList)
  /\ regPc' = "done"
  /\ UNCHANGED <<regCountry, regList, valV, orcV, nlV, stV, fetV, twV, simV, scnV, namV, batV, ptV, autV>>

search_handelsregister ==
  /\ regPc = "call" /\ regCountry = "DE"
  /\ \E http \in HttpOutcomes, detail \in HttpOutcomes :
       /\ regHttp' = http
       /\ regSel' = DeSearch(http, regList, detail)
  /\ regPc' = "done"
  /\ UNCHANGED <<regCountry, regList, valV, orcV, nlV, stV, fetV, twV, simV, scnV, namV, batV, ptV, autV>>

NextReg ==
  \/ search_annuaire_entreprises
  \/ search_companies_house_by_name
  \/ search_handelsregister

SpecReg == InitReg /\ [][NextReg]_vars

RegThreshold ==
  CASE regCountry = "FR" -> FrThreshold
    [] regCountry = "GB" -> UkThreshold
    [] regCountry = "DE" -> DeThreshold

\* the listed entry the search returned: by name for the German search, by
\* identifier for the other two
SelectedCand ==
  CHOOSE c \in Range(regList) :
    IF regCountry = "DE" THEN c.name = regSel.name ELSE c.id = regSel.id

SetMax(S) == CHOOSE m \in S : \A x \in S : x <= m

\* C10: when the registry lists several candidates, the candidate a search
\* selects has the maximal similarity among the candidates above the
\* threshold, whatever the order of the listing (FR, UK and DE searches).
C10_SelectedIsMaxAboveThreshold ==
  (regPc = "done" /\ Len(regList) >= 2 /\ regSel.has)
  => SelectedCand.sim =
       SetMax({c.sim : c \in {x \in Range(regList) : x.sim > RegThreshold}})

-----------------------------------------------------------------------------
(* The orchestrator (complete_multi_country_vat_extractor.py)               *)

\* COUNTRY_CODES
COUNTRY_CODES ==
  [ AT |-> "Austria", CH |-> "Switzerland", DE |-> "Germany", FR |-> "France",
    GB |-> "United Kingdom", IT |-> "Italy", LU |-> "Luxembourg",
    NL |-> "Netherlands", PT |-> "Portugal" ]

SupportedCodes == DOMAIN COUNTRY_CODES

\* COUNTRY_CODES.get(country_code, country_code)
CountryNameOrCode(cc) == IF cc \in SupportedCodes THEN COUNTRY_CODES[cc] ELSE cc

\* {v: k for k, v in COUNTRY_CODES.items()}
CodeByName == { <<COUNTRY_CODES[k], k>> : k \in SupportedCodes }

\* a cell pandas read as missing (float NaN)
NaN == "<NaN>"

\* str(cell)
PyStr(cell) == IF cell = NaN THEN "nan" ELSE cell

\* str.strip() on the cell texts of the model
Strip(s) == IF s = " nl " THEN "nl" ELSE s

\* str.upper() on the cell texts of the model
UpperStr(s) ==
  CASE s = "nl" -> "NL"
    [] s = "nan" -> "NAN"
    [] s = "Netherlands" -> "NETHERLANDS"
    [] OTHER -> s

\* len() of the cell texts of the model
StrLen(s) ==
  CASE s = "" -> 0
    [] s \in {"nan", "NAN"} -> 3
    [] s = " nl " -> 4
    [] s \in {"Netherlands", "NETHERLANDS"} -> 11
    [] OTHER -> 2

\* eight and nine digit groups a page can carry after a KvK / BTW keyword
KvkLeadingZero == <<"0", "1", "2", "3", "4", "5", "6", "7">>
KvkGood == <<"1", "2", "3", "4", "5", "6", "7", "8">>
BtwGood == <<"0", "0", "0", "0", "0", "0", "4", "0", "1">>
BtwBad == <<"1", "2", "3", "4", "5", "6", "7", "8", "2">>

\* a fetched page: the groups its KvK and BTW patterns capture, in order, and
\* whether the identifier pattern of another country's extractor matches it
Page(kvk, btw, gen) == [kvk |-> kvk, btw |-> btw, gen |-> gen]
PageNone == Page(<<>>, <<>>, FALSE)
PageKvkZero == Page(<<KvkLeadingZero>>, <<>>, FALSE)
PageKvkGood == Page(<<KvkLeadingZero, KvkGood>>, <<BtwBad>>, TRUE)
PageBtw == Page(<<>>, <<BtwBad, BtwGood>>, TRUE)
Pages == {PageNone, PageKvkZero, PageKvkGood, PageBtw}

\* what session.get does: it raises, answers with a status other than 200,
\* or answers 200 with a page
Fetch(kind, page) == [kind |-> kind, page |-> page]
WebOutcomes ==
  {Fetch("raise", PageNone), Fetch("status", PageNone)}
    \cup {Fetch("ok", pg) : pg \in Pages}

WebsiteUrl == "https://acme.example"
\* requests raises MissingSchema for a string that is no URL
IsUrl(s) == s = WebsiteUrl

\* registry listings the Companies House search page can show
UkListings ==
  { <<>>, <<Cand(<<"5", "5">>, "n55", 55)>>,
    <<Cand(<<"6", "5", "1">>, "n65a", 65), Cand(<<"9", "0">>, "n90", 90)>> }

\* what the network does during one resolution
Envs ==
  [ http : {"ok", "raise"}, links : UkListings, web : WebOutcomes ]

\* re.sub(r'[^0-9]', '', code)
CleanCode(code) == SelectSeq(code, LAMBDA c : c \in AsciiDigits)

\* first capture whose cleaned code has n digits, "" when the scan returns None
RECURSIVE FirstCode(_, _, _)
FirstCode(hits, k, n) ==
  IF k > Len(hits) THEN ""
  ELSE LET clean_code == CleanCode(hits[k])
       IN IF Len(clean_code) = n /\ isdigit(clean_code) THEN clean_code
          ELSE FirstCode(hits, k + 1, n)

\* DutchKvKExtractor.extract_kvk_from_html of the orchestrator
extract_kvk_from_html(page) == FirstCode(page.kvk, 1, 8)
\* DutchKvKExtractor.extract_btw_from_html of the orchestrator
extract_btw_from_html(page) == FirstCode(page.btw, 1, 9)

\* an outcome dict: ids holds the identifier keys as <<key, value>> pairs;
\* "<absent>" stands for a key the dict does not have
Absent == "<absent>"
Outcome(name, website, legal, status, ids, country) ==
  [ company_name |-> name, website |-> website, legal_name |-> legal,
    status |-> status, ids |-> ids, country |-> country, error |-> Absent ]

\* what one resolution did besides returning: the extractor it called, the
\* requests it sent, the exception a request raised ("" when none did) and
\* the page the website request read
Resolution(result, extractor, fetched, fault, page) ==
  [ result |-> result, extractor |-> extractor, fetched |-> fetched,
    fault |-> fault, page |-> page ]

Trace(r) ==
  [ extractor |-> r.extractor, fetched |-> r.fetched, fault |-> r.fault,
    page |-> r.page ]

\* the identifier key an extractor other than the Dutch and UK ones fills
IdKey ==
  [ AT |-> "vat", CH |-> "uid", DE |-> "steuernummer", FR |-> "siren",
    IT |-> "partita_iva", LU |-> "vat", PT |-> "nif" ]

\* the website request of process_company: only 200 answers are read
PageRead(company_url, env) ==
  IF company_url = "" \/ ~IsUrl(company_url) \/ env.web.kind # "ok"
  THEN PageNone ELSE env.web.page

WebFetched(company_url) == IF company_url = "" THEN <<>> ELSE <<company_url>>

\* the exception session.get(company_url) raises, "" when it returns
WebFault(company_url, env) ==
  IF company_url = "" THEN ""
  ELSE IF ~IsUrl(company_url) THEN "MissingSchema"
  ELSE IF env.web.kind = "raise" THEN "ConnectionError"
  ELSE ""

\* the value an identifier pattern of a country other than NL captures
GenId == <<"9", "9">>

IdsOf(key, value) == IF Len(value) > 0 THEN {<<key, value>>} ELSE {}

\* DutchKvKExtractor.process_company of the orchestrator
NlProcessCompany(company_name, company_url, env) ==
  LET page == PageRead(company_url, env)
      ids == IdsOf("kvk", extract_kvk_from_html(page))
               \cup IdsOf("btw", extract_btw_from_html(page))
  IN Resolution(Outcome(company_name, company_url, company_name,
                        IF ids # {} THEN "Found" ELSE "Not Found", ids, Absent),
                "NL", WebFetched(company_url), WebFault(company_url, env), page)

\* UKCompanyNumberExtractor.process_company of the orchestrator: the registry
\* search first, then the website, whose number replaces the registry's
UkProcessCompany(company_name, company_url, env) ==
  LET sel == UkSearch(env.http, env.links)
      page == PageRead(company_url, env)
      company_number == IF page.gen THEN GenId ELSE sel.id
  IN Resolution(Outcome(company_name, company_url, company_name,
                        IF sel.has \/ page.gen THEN "Found" ELSE "Not Found",
                        {<<"company_number", company_number>>}, Absent),
                "GB", <<"companies_house">> \o WebFetched(company_url),
                IF env.http = "raise" THEN "ConnectionError"
                ELSE WebFault(company_url, env), page)

\* process_company of the seven other extractors of the orchestrator
GenProcessCompany(cc, company_name, company_url, env) ==
  LET page == PageRead(company_url, env)
      ids == IF page.gen THEN {<<IdKey[cc], GenId>>} ELSE {}
  IN Resolution(Outcome(company_name, company_url, company_name,
                        IF ids # {} THEN "Found" ELSE "Not Found", ids, Absent),
                cc, WebFetched(company_url), WebFault(company_url, env), page)

\* self.extractors[country_code].process_company(company_name, website)
process_company(cc, company_name, website, env) ==
  CASE cc = "NL" -> NlProcessCompany(company_name, website, env)
    [] cc = "GB" -> UkProcessCompany(company_name, website, env)
    [] OTHER -> GenProcessCompany(cc, company_name, website, env)

\* the fallback of process_single_company for a code without extractor
CountryNotSupported(company_name, website, country_code) ==
  Resolution(Outcome(company_name, website, Absent, "Country not supported",
                     {}, CountryNameOrCode(country_code)),
             "None", <<>>, "", PageNone)

\* CompleteMultiCountryVATExtractor.process_single_company
FallbackToDefaultExtractor(company_name, website, country_code, env) ==
  process_company(IF country_code \in SupportedCodes THEN country_code ELSE "GB",
                  company_name, website, env)
process_single_company(company_name, website, country_code, env) ==
  IF country_code \in SupportedCodes
  THEN process_company(country_code, company_name, website, env)
  ELSE CountryNotSupported(company_name, website, country_code)

\* the country a row of process_company_list is dispatched with
RowCountryCode(has_country_col, cell) ==
  IF ~has_country_col THEN "GB"
  ELSE LET country_val == UpperStr(Strip(PyStr(cell)))
       IN IF StrLen(country_val) = 2 /\ country_val \in SupportedCodes
          THEN country_val
          ELSE IF \E nk \in CodeByName : nk[1] = country_val
               THEN (CHOOSE nk \in CodeByName : nk[1] = country_val)[2]
               ELSE "GB"

RowWebsite(has_website_col, cell) ==
  IF has_website_col THEN Strip(PyStr(cell)) ELSE ""

MaxRows == 2

CompanyName == "Acme"
WebsiteCells == {NaN, WebsiteUrl}
CountryCells == {"NL", " nl ", "ES", "Netherlands", "FR", NaN}
Rows == [name : {CompanyName}, website : WebsiteCells, country : CountryCells]
Frames == UNION {[1..n -> Rows] : n \in 0..MaxRows}
Columns == {[website |-> TRUE, country |-> TRUE], [website |-> FALSE, country |-> FALSE]}
SingleArgs ==
  [ country_code : SupportedCodes \cup {"ES", "nl", ""},
    website : {"", WebsiteUrl} ]

\* the 'Default Country' selector of the bulk-processing tab, shown when no
\* country column is chosen; its value is held in oArgs.country_code
DefaultCountries(has_country_col) ==
  IF has_country_col THEN {""} ELSE SupportedCodes

\* AustrianCompanyExtractor.process_company_website; vat is what the first
\* page with a VAT pattern gives extract_vat_from_page (<<>> when no page of
\* find_legal_pages nor the home page has one), legal is the name
\* extract_legal_name_with_austrian_suffixes reads on the home page
AtVats == {<<>>, <<"A", "T", "U", "1">>, <<"F", "N", "1", "a">>}
AtEnvs == [vat : AtVats, legal : {"", "Acme GmbH"}]
AtResult(name, url, legal, vat, register, status) ==
  [ portfolio_company |-> name, company_url |-> url, legal_name |-> legal,
    vat_number |-> vat, commercial_register |-> register, status |-> status ]
process_company_website(company_name, company_url, env) ==
  IF company_url = ""
  THEN AtResult(company_name, company_url, company_name, <<>>, <<>>, "No URL Provided")
  ELSE LET legal == IF env.legal # "" /\ env.legal # company_name
                    THEN env.legal ELSE company_name
           fn == Len(env.vat) >= 2 /\ SubSeq(env.vat, 1, 2) = <<"F", "N">>
       IN IF Len(env.vat) = 0
          THEN AtResult(company_name, company_url, legal, <<>>, <<>>, "Not Found")
          ELSE AtResult(company_name, company_url, legal,
                        IF fn THEN <<>> ELSE env.vat,
                        IF fn THEN env.vat ELSE <<>>, "Found")

\* the companies_data handed to process_portfolio_companies
AtCompanies == [name : {CompanyName, "Beta", ""}, url : {"", WebsiteUrl}]
AtFrames == UNION {[1..n -> AtCompanies] : n \in 0..MaxRows}

\* the loop body with the newest result put first
PortfolioStepNewestFirst(res, company_data, env) ==
  IF company_data.name # ""
  THEN <<process_company_website(company_data.name, company_data.url, env)>> \o res
  ELSE res

\* the loop body of process_portfolio_companies: self.results afterwards
PortfolioStep(res, company_data, env) ==
  IF company_data.name # ""
  THEN Append(res, process_company_website(company_data.name, company_data.url, env))
  ELSE res

Init ==
  /\ IdleVal /\ IdleReg /\ IdleNl /\ IdleSt /\ IdleFet /\ IdleTw /\ IdleSim /\ IdleScn /\ IdleNam /\ IdleBat /\ IdlePt /\ IdleAut
  /\ \/ /\ oMode = "single"
        /\ oArgs \in SingleArgs
        /\ df = <<>>
        /\ cols = [website |-> FALSE, country |-> FALSE]
     \/ /\ oMode = "batch"
        /\ df \in Frames
        /\ cols \in Columns
        /\ \E default_country \in DefaultCountries(cols.country) :
             oArgs = [country_code |-> default_country, website |-> ""]
     \/ /\ oMode = "portfolio"
        /\ oArgs = [country_code |-> "", website |-> ""]
        /\ df \in AtFrames
        /\ cols = [website |-> FALSE, country |-> FALSE]
  /\ idx = 0
  /\ results = <<>>
  /\ log = <<>>

\* one call of process_single_company
SingleCall ==
  /\ oMode = "single" /\ idx = 0
  /\ \E env \in Envs :
       LET r == process_single_company(CompanyName, oArgs.website,
                                       oArgs.country_code, env)
       IN /\ results' = <<r.result>>
          /\ log' = <<Trace(r)>>
  /\ idx' = 1
  /\ UNCHANGED <<oMode, oArgs, df, cols, valV, regV, nlV, stV, fetV, twV, simV, scnV, namV, batV, ptV, autV>>

\* one iteration of the loop of process_company_list
BatchRow ==
  /\ oMode = "batch" /\ idx < Len(df)
  /\ \E env \in Envs :
       LET row == df[idx + 1]
           company_name == Strip(PyStr(row.name))
           website == RowWebsite(cols.website, row.website)
           country_code == RowCountryCode(cols.country, row.country)
           r == process_single_company(company_name, website, country_code, env)
       IN /\ results' = Append(results, r.result)
          /\ log' = Append(log, Trace(r))
  /\ idx' = idx + 1
  /\ UNCHANGED <<oMode, oArgs, df, cols, valV, regV, nlV, stV, fetV, twV, simV, scnV, namV, batV, ptV, autV>>

\* one iteration of the loop of process_portfolio_companies
PortfolioRow ==
  /\ oMode = "portfolio" /\ idx < Len(df)
  /\ \E env \in AtEnvs :
       results' = PortfolioStep(results, df[idx + 1], env)
  /\ log' = Append(log, [extractor |-> "AT", fetched |-> <<>>, fault |-> "",
                          page |-> PageNone])
  /\ idx' = idx + 1
  /\ UNCHANGED <<oMode, oArgs, df, cols, valV, regV, nlV, stV, fetV, twV, simV, scnV, namV, batV, ptV, autV>>

Next == SingleCall \/ BatchRow \/ PortfolioRow

Spec == Init /\ [][Next]_vars

\* C1: process_single_company called with a code that has no extractor
\* returns the status 'Country not supported', sends no request and calls
\* no country extractor, whatever the name and website.
C1_UnsupportedCodeNoFetch ==
  (oMode = "single" /\ idx = 1 /\ oArgs.country_code \notin SupportedCodes)
  => /\ results[1].status = "Country not supported"
     /\ log[1].fetched = <<>>
     /\ log[1].extractor = "None"

C1_Witness ==
  /\ oMode = "single" /\ idx = 1
  /\ oArgs.country_code = "ES" /\ oArgs.website = WebsiteUrl
  /\ results[1].status = "Country not supported"

\* C2: in the batch loop a fault raised while resolving a row gives that row
\* an outcome of status Error that carries the fault's message, and every
\* row of the frame still gets its outcome.
C2_FaultGivesErrorOutcome ==
  oMode = "batch"
  => \A i \in 1..idx :
       log[i].fault # ""
       => results[i].status = "Error" /\ results[i].error = log[i].fault

\* the country cell of a row is a two-letter code without extractor
UnsupportedCodeCell(cell) ==
  LET country_val == UpperStr(Strip(PyStr(cell)))
  IN StrLen(country_val) = 2 /\ country_val \notin SupportedCodes

\* C3: in process_company_list a row whose country cell is a two-letter code
\* outside the nine supported ones gets the unsupported-country status and
\* no request is sent for it.
C3_BatchUnsupportedCodeRow ==
  (oMode = "batch" /\ cols.country)
  => \A i \in 1..idx :
       UnsupportedCodeCell(df[i].country)
       => results[i].status = "Country not supported" /\ log[i].fetched = <<>>

\* C7: an NL resolution through the orchestrator whose page carries only a
\* KvK number starting with 0 has no KvK identifier in its outcome and is
\* not Found.
C7_OrchestratorRejectsLeadingZeroKvk ==
  \A i \in 1..idx :
    (log[i].extractor = "NL" /\ log[i].page = PageKvkZero)
    => /\ \A kv \in results[i].ids : kv[1] # "kvk"
       /\ results[i].status # "Found"

-----------------------------------------------------------------------------
(* The NL strategy (new_vat_extractor_nl.py)                                *)

\* len(get_dutch_paths())
DutchPathCount == 21
\* search_results[:3]: detail pages opened per register search
KvkTopResults == 3
\* legal_names_with_sources[:3] (step 3) and [:2] (step 4)
Step3Names == 3
Step4Names == 2

MaxDetails == 2

KvkSpaced == <<"1", "2", " ", "3", "4", " ", "5", "6", " ", "7", "8">>
KvkOther == <<"8", "7", "6", "5", "4", "3", "2", "1">>
LeiLower == [i \in 1..20 |-> IF i = 1 THEN "b" ELSE "9"]
LeiUpper == [i \in 1..20 |-> IF i = 1 THEN "A" ELSE "0"]

\* what the patterns of the extractor capture on a page, in order, and the
\* (name, source) pairs extract_legal_name_from_website returns for it;
\* content is FALSE when neither requests nor Selenium returned html
NlPage(kvk, rsin, lei, btw, names) ==
  [ content |-> TRUE, kvk |-> kvk, rsin |-> rsin, lei |-> lei, btw |-> btw,
    names |-> names ]
NlNoContent ==
  [ content |-> FALSE, kvk |-> <<>>, rsin |-> <<>>, lei |-> <<>>, btw |-> <<>>,
    names |-> <<>> ]
NlPageKvkZero == NlPage(<<KvkLeadingZero>>, <<>>, <<>>, <<>>, <<>>)
NlPageKvk == NlPage(<<KvkLeadingZero, KvkSpaced>>, <<>>, <<>>, <<>>, <<>>)
NlPageCodes == NlPage(<<>>, <<BtwBad, BtwGood>>, <<LeiLower>>, <<BtwBad>>, <<>>)
NlPageNames ==
  NlPage(<<>>, <<>>, <<>>, <<BtwGood>>,
         << <<"Acme B.V.", "title">>, <<"Acme Holding B.V.", "footer">> >>)
NlPageLei == NlPage(<<>>, <<>>, <<LeiLower>>, <<>>, <<>>)
NlPages ==
  {NlNoContent, NlPageKvkZero, NlPageKvk, NlPageCodes, NlPageNames, NlPageLei}

CodeKinds == {"kvk", "rsin", "lei", "btw"}

\* re.sub(r'[^0-9]', '', code), and re.sub(r'[^A-Z0-9]', '', code.upper())
\* for a LEI
CleanCodeOf(kind, code) ==
  IF kind = "lei" THEN SelectSeq(upper(code), LAMBDA c : c \in LeiChars)
  ELSE CleanCode(code)

\* the validator extract_codes_from_html applies to a cleaned code
CodePassesUnchecked(kind, clean_code) == Truthy(clean_code)
CodePasses(kind, clean_code) ==
  CASE kind = "kvk" -> validate_kvk_number(clean_code) = "True"
    [] kind = "rsin" -> validate_rsin_number(clean_code) = "True"
    [] kind = "lei" -> validate_lei_code(clean_code) = "True"
    [] kind = "btw" -> validate_btw_number(clean_code) = "True"

SetMin(S) == CHOOSE m \in S : \A x \in S : m <= x

\* the first capture whose cleaned code passes its validator, None if none
FirstValidCode(kind, hits) ==
  LET ok == {k \in 1..Len(hits) : CodePasses(kind, Str(CleanCodeOf(kind, hits[k])))}
  IN IF ok = {} THEN NoneStr ELSE Str(CleanCodeOf(kind, hits[SetMin(ok)]))

\* DutchKvKExtractor.extract_codes_from_html
extract_codes_from_html(page) ==
  [kind \in CodeKinds |-> FirstValidCode(kind, page[kind])]

\* a detail page of the register: the capture of the VAT-number span (<<>>
\* when the span is missing), the captures of the fallback patterns, the
\* name the selectors give and the title ("None" when there is none)
Detail(vat, kvks, name, title) ==
  [vat |-> vat, kvks |-> kvks, name |-> name, title |-> title]
DetailPages ==
  { Detail(<<>>, <<>>, "None", "None"),
    Detail(KvkLeadingZero, <<KvkLeadingZero>>, "Acme B.V.", "Acme B.V. - KVK"),
    Detail(KvkGood, <<>>, "Acme B.V.", "Acme B.V. - KVK"),
    Detail(<<>>, <<KvkLeadingZero, KvkOther>>, "None", "None") }

KvkHit(kvk, legal) == [kvk |-> kvk, legal |-> legal]
NoKvkHit == KvkHit(NoneStr, "None")

\* DutchKvKExtractor.extract_kvk_from_detail_page
extract_kvk_from_detail_page(d) ==
  IF Len(d.vat) > 0 /\ validate_kvk_number(Str(d.vat)) = "True"
  THEN KvkHit(Str(d.vat), d.name)
  ELSE LET ok == {k \in 1..Len(d.kvks) :
                    validate_kvk_number(Str(d.kvks[k])) = "True"}
       IN IF ok = {} THEN NoKvkHit
          ELSE KvkHit(Str(d.kvks[SetMin(ok)]), d.title)

\* what the register answers to a search: whether the search page loads,
\* and the detail pages of its results, best similarity first
RegisterAnswers ==
  [ ok : BOOLEAN,
    details : UNION {[1..n -> DetailPages] : n \in 0..MaxDetails} ]

\* the detail pages search_kvk_register_enhanced opens: the top three, up
\* to and including the first that yields a KvK number
DetailsOpened(details) ==
  LET top == SubSeq(details, 1, Min2(Len(details), KvkTopResults))
      hit == {k \in 1..Len(top) : Truthy(extract_kvk_from_detail_page(top[k]).kvk)}
  IN IF hit = {} THEN top ELSE SubSeq(top, 1, SetMin(hit))

\* DutchKvKExtractor.search_kvk_register_enhanced: (kvk_number, legal_name)
search_kvk_register_enhanced(answer) ==
  IF ~answer.ok THEN NoKvkHit
  ELSE LET opened == DetailsOpened(answer.details)
       IN IF Len(opened) = 0 THEN NoKvkHit
          ELSE extract_kvk_from_detail_page(opened[Len(opened)])

RegisterLoads(answer) ==
  1 + (IF answer.ok THEN Len(DetailsOpened(answer.details)) ELSE 0)

\* a 20-character match on the LEI result page with the company name found
\* next to it ("None" when none) and that name's similarity to the query
LeiMatch(lei, name, sim) == [lei |-> lei, name |-> name, sim |-> sim]
LeiAnswers ==
  { [ok |-> FALSE, matches |-> <<>>],
    [ok |-> TRUE, matches |-> <<>>],
    [ok |-> TRUE, matches |-> << LeiMatch(LeiUpper, "None", 0),
                                 LeiMatch(LeiLower, "Acme B.V.", 80) >>] }

LeiHit(lei, name) == [lei |-> lei, name |-> name]
NoLeiHit == LeiHit(NoneStr, "None")

\* DutchKvKExtractor.search_lei_lookup: the valid matches, sorted by
\* similarity (a stable sort, largest first), first one returned
search_lei_lookup(answer) ==
  LET valid == SelectSeq(answer.matches,
                         LAMBDA m : validate_lei_code(Str(m.lei)) = "True")
      best == {k \in 1..Len(valid) : \A j \in 1..Len(valid) : valid[j].sim <= valid[k].sim}
  IN IF ~answer.ok \/ Len(valid) = 0 THEN NoLeiHit
     ELSE LeiHit(Str(valid[SetMin(best)].lei), valid[SetMin(best)].name)

\* website = company.get('website', '').strip(), with 'https://' put in
\* front of a website that does not start with 'http'
NlWebsites == {"", "acme.nl", "https://acme.nl"}
NormaliseWebsite(website) ==
  IF website = "acme.nl" THEN "https://acme.nl" ELSE website

\* the result dict of process_single_dutch_company as first built
NlNewResult(website) ==
  [ website |-> website, legal_name_website |-> "", legal_name_source |-> "",
    legal_name_kvk |-> "", kvk_number |-> Str(<<>>), rsin |-> Str(<<>>),
    lei |-> Str(<<>>), btw |-> Str(<<>>), status |-> "not_found",
    search_location |-> "", error |-> "None" ]

NlNothingFound ==
  [ codes |-> [kind \in CodeKinds |-> NoneStr], names |-> <<>> ]

\* Python truthiness of a name that may be None or ''
NameTruthy(n) == n # "None" /\ n # ""

InitNl ==
  /\ IdleVal /\ IdleReg /\ IdleOrc /\ IdleSt /\ IdleFet /\ IdleTw /\ IdleSim /\ IdleScn /\ IdleNam /\ IdleBat /\ IdlePt /\ IdleAut
  /\ nlPc = "step1"
  /\ \E w \in NlWebsites : nlWebsite = NormaliseWebsite(w)
  /\ nlResult = NlNewResult(nlWebsite)
  /\ nlPath = 0
  /\ nlFound = NlNothingFound
  /\ nlTried = 0
  /\ nlFetches = 0

\* step 1: the register search with the company's name; then the test for
\* a website
NlStep1 ==
  /\ nlPc = "step1"
  /\ \E answer \in RegisterAnswers :
       LET hit == search_kvk_register_enhanced(answer)
       IN /\ nlFetches' = nlFetches + RegisterLoads(answer)
          /\ IF Truthy(hit.kvk) /\ NameTruthy(hit.legal)
             THEN /\ nlResult' = [nlResult EXCEPT !.kvk_number = hit.kvk,
                                    !.legal_name_kvk = hit.legal,
                                    !.status = "found",
                                    !.search_location = "kvk_register_direct"]
                  /\ nlPc' = "done"
             ELSE IF nlWebsite = ""
             THEN /\ nlResult' = [nlResult EXCEPT !.status = "no_website",
                                    !.error = "No website provided and not found in KvK register"]
                  /\ nlPc' = "done"
             ELSE /\ nlResult' = nlResult
                  /\ nlPc' = "scan"
  /\ UNCHANGED <<nlWebsite, nlPath, nlFound, nlTried, valV, regV, orcV, stV, fetV, twV, simV, scnV, namV, batV, ptV, autV>>

\* the result after search_website_for_info has returned (step 2), with
\* the status set on any code of the website
AfterScanAnyCode(result, found) ==
  LET coded == [result EXCEPT !.kvk_number = found.codes["kvk"],
                              !.rsin = found.codes["rsin"],
                              !.lei = found.codes["lei"],
                              !.btw = found.codes["btw"]]
  IN IF \E kind \in CodeKinds : Truthy(found.codes[kind])
     THEN [coded EXCEPT !.status = "found", !.search_location = "website_direct"]
     ELSE coded

\* the result after search_website_for_info has returned (step 2)
AfterScan(result, found) ==
  LET named == IF Len(found.names) > 0
               THEN [result EXCEPT !.legal_name_website = found.names[1][1],
                                   !.legal_name_source = found.names[1][2]]
               ELSE result
      coded == [named EXCEPT !.kvk_number = found.codes["kvk"],
                             !.rsin = found.codes["rsin"],
                             !.lei = found.codes["lei"],
                             !.btw = found.codes["btw"]]
  IN IF Truthy(found.codes["kvk"])
     THEN [coded EXCEPT !.status = "found", !.search_location = "website_direct"]
     ELSE coded

\* one path of search_website_for_info; after the last path, or once a KvK
\* number and a legal name are found, step 2 of the strategy
NlScanPath ==
  /\ nlPc = "scan"
  /\ \E page \in NlPages :
       LET codes == extract_codes_from_html(page)
           found == IF ~page.content THEN nlFound
                    ELSE [ codes |-> [kind \in CodeKinds |->
                                        IF Truthy(codes[kind]) /\ ~Truthy(nlFound.codes[kind])
                                        THEN codes[kind] ELSE nlFound.codes[kind]],
                           names |-> nlFound.names \o page.names ]
           over == \/ nlPath + 1 = DutchPathCount
                   \/ page.content /\ Truthy(found.codes["kvk"]) /\ Len(found.names) > 0
       IN /\ nlFound' = found
          /\ IF ~over THEN nlResult' = nlResult /\ nlPc' = "scan"
             ELSE /\ nlResult' = AfterScan(nlResult, found)
                  /\ nlPc' = IF Truthy(found.codes["kvk"]) THEN "done"
                             ELSE IF Len(found.names) > 0 THEN "step3"
                             ELSE "step4"
  /\ nlPath' = nlPath + 1
  /\ nlFetches' = nlFetches + 1
  /\ UNCHANGED <<nlWebsite, nlTried, valV, regV, orcV, stV, fetV, twV, simV, scnV, namV, batV, ptV, autV>>

\* step 3: the register search with the next of the first three website
\* legal names
NlStep3 ==
  /\ nlPc = "step3"
  /\ \E answer \in RegisterAnswers :
       LET hit == search_kvk_register_enhanced(answer)
       IN /\ nlFetches' = nlFetches + RegisterLoads(answer)
          /\ IF Truthy(hit.kvk)
             THEN /\ nlResult' = [nlResult EXCEPT !.kvk_number = hit.kvk,
                                    !.legal_name_kvk = hit.legal,
                                    !.status = "found",
                                    !.search_location = "kvk_via_website_name"]
                  /\ nlPc' = "done"
             ELSE /\ nlResult' = nlResult
                  /\ nlPc' = IF nlTried + 1 < Min2(Len(nlFound.names), Step3Names)
                             THEN "step3" ELSE "step4"
  /\ nlTried' = nlTried + 1
  /\ UNCHANGED <<nlWebsite, nlPath, nlFound, valV, regV, orcV, stV, fetV, twV, simV, scnV, namV, batV, ptV, autV>>

\* the LEI lookups of step 4: the company's name, then the first two
\* website legal names until one gives a code
RECURSIVE LeiLookups(_, _, _)
LeiLookups(answers, k, last) ==
  IF k > last THEN [hit |-> NoLeiHit, made |-> last]
  ELSE LET hit == search_lei_lookup(answers[k])
       IN IF Truthy(hit.lei) THEN [hit |-> hit, made |-> k]
          ELSE LeiLookups(answers, k + 1, last)

\* steps 4 and 5: the LEI lookups, then the other codes of the website
NlStep4 ==
  /\ nlPc = "step4"
  /\ \E answers \in [1..(1 + Step4Names) -> LeiAnswers] :
       LET tries == 1 + Min2(Len(nlFound.names), Step4Names)
           look == LeiLookups(answers, 1, tries)
       IN /\ nlFetches' = nlFetches + look.made
          /\ nlResult' =
               IF Truthy(look.hit.lei)
               THEN LET r == [nlResult EXCEPT !.lei = look.hit.lei,
                                !.status = "found_lei_only",
                                !.search_location = "lei_lookup"]
                    IN IF NameTruthy(look.hit.name)
                       THEN [r EXCEPT !.legal_name_website = look.hit.name,
                                      !.legal_name_source = "lei_lookup"]
                       ELSE r
               ELSE IF Truthy(nlFound.codes["rsin"]) \/ Truthy(nlFound.codes["btw"])
               THEN [nlResult EXCEPT !.status = "found_partial",
                                     !.search_location = "website_other_codes"]
               ELSE [nlResult EXCEPT !.status = "not_found",
                                     !.search_location = "exhausted_all_methods"]
  /\ nlPc' = "done"
  /\ UNCHANGED <<nlWebsite, nlPath, nlFound, nlTried, valV, regV, orcV, stV, fetV, twV, simV, scnV, namV, batV, ptV, autV>>

NextNl == NlStep1 \/ NlScanPath \/ NlStep3 \/ NlStep4

SpecNL == InitNl /\ [][NextNl]_vars

\* C6: every non-empty kvk_number, rsin, btw and lei of the result of
\* process_single_dutch_company passes its validator, whichever step wrote it.
C6_OutcomeCodesValid ==
  /\ Truthy(nlResult.kvk_number) => validate_kvk_number(nlResult.kvk_number) = "True"
  /\ Truthy(nlResult.rsin) => validate_rsin_number(nlResult.rsin) = "True"
  /\ Truthy(nlResult.btw) => validate_btw_number(nlResult.btw) = "True"
  /\ Truthy(nlResult.lei) => validate_lei_code(nlResult.lei) = "True"

\* a finished resolution whose website showed a KvK capture starting with 0
\* before the KvK number that reached the result
C6_Witness ==
  /\ nlPc = "done"
  /\ nlResult.search_location = "website_direct"
  /\ nlResult.kvk_number = Str(CleanCode(KvkSpaced))
  /\ Truthy(nlResult.btw)

-----------------------------------------------------------------------------
(* The UK, CH and FR strategies (uk_company_number_extractor.py,            *)
(* swiss_company_extractor.py, new_vat_extractor_france2.py)                *)

\* best_score > 0.4 in parse_auditorstats_results
ChThreshold == 40

MaxFound == 2

StName == "Acme"
StUrls == {"", WebsiteUrl}

\* the result dict of the two strategies; an identifier the strategy does
\* not have is <<>>
StOutcome(legal, number, uid, ch_id, status, method) ==
  [ legal_name |-> legal, company_number |-> number, uid |-> uid,
    ch_id |-> ch_id, siren |-> <<>>, vat_code |-> <<>>,
    legal_name_website |-> "",
    status |-> status, search_method |-> method ]

\* Companies House company page: None when the request fails, else the
\* heading ("" when there is none) and the company status
UkDetails ==
  { [ok |-> FALSE, company_name |-> "", status |-> ""],
    [ok |-> TRUE, company_name |-> "", status |-> "Active"],
    [ok |-> TRUE, company_name |-> "ACME LIMITED", status |-> "Active"] }

\* the company's website as the UK strategy reads it: the company number
\* extract_company_number_from_html returns (<<>> for None) and the name
\* extract_legal_name_structured_approach returns
UkSitePage(number, legal) == [number |-> number, legal |-> legal]
UkSitePages ==
  { UkSitePage(<<>>, StName), UkSitePage(<<"0", "7">>, StName),
    UkSitePage(<<"0", "7">>, "Acme Ltd"), UkSitePage(<<>>, "Acme Ltd") }

SiteKinds == {"raise", "status", "ok"}

\* process_company_with_companies_house up to the website: the search by
\* name and the company page
UkRegistryStep(company_name, http, links, details) ==
  LET sel == UkSearch(http, links)
  IN IF ~sel.has
     THEN StOutcome(company_name, <<>>, <<>>, <<>>, "", "companies_house_web")
     ELSE IF details.ok
     THEN StOutcome(details.company_name, sel.id, <<>>, <<>>, details.status,
                    "companies_house_web")
     ELSE StOutcome(company_name, sel.id, <<>>, <<>>, "", "companies_house_web")

\* the website part of process_company_with_companies_house
UkWebsiteStep(result, company_name, kind, page) ==
  IF kind # "ok" THEN result
  ELSE [result EXCEPT
          !.company_number = IF Len(page.number) > 0 THEN page.number ELSE @,
          !.search_method = IF Len(page.number) > 0 THEN "website_extraction" ELSE @,
          !.legal_name = IF page.legal # "" /\ page.legal # company_name
                         THEN page.legal ELSE @]

\* a company_data dict of the auditorstats results: company_name is "" and
\* an identifier <<>> when the dict lacks the key
ChCompany(name, uid, ch_id, sim) ==
  [company_name |-> name, uid |-> uid, ch_id |-> ch_id, sim |-> sim]
ChUid == <<"C", "H", "E", "1">>
ChUidSite == <<"C", "H", "E", "2">>
ChId == <<"C", "H", "0", "2">>
ChCompanies ==
  { ChCompany("Acme AG", ChUid, <<>>, 90), ChCompany("Acme SA", <<>>, <<>>, 80),
    ChCompany("", ChUidSite, ChId, 0), ChCompany("Other AG", ChUid, ChId, 30) }
ChFoundLists ==
  UNION { {l \in [1..n -> ChCompanies] : \A i, j \in 1..n : l[i] = l[j] => i = j}
          : n \in 0..MaxFound }

NoChBest == [found |-> FALSE, match |-> ChCompany("", <<>>, <<>>, 0), score |-> 0]

\* for company in companies_found: if company.get('company_name'): ...
RECURSIVE ChBestLoop(_, _, _)
ChBestLoop(companies_found, k, best) ==
  IF k > Len(companies_found) THEN best
  ELSE LET company == companies_found[k]
       IN ChBestLoop(companies_found, k + 1,
            IF company.company_name # "" /\ company.sim > best.score
            THEN [found |-> TRUE, match |-> company, score |-> company.sim]
            ELSE best)

\* SwissCompanyExtractor.parse_auditorstats_results (found is FALSE for None)
parse_auditorstats_results(companies_found) ==
  LET best == ChBestLoop(companies_found, 1, NoChBest)
  IN IF Len(companies_found) = 0 THEN NoChBest
     ELSE IF best.found /\ best.score > ChThreshold THEN best
     ELSE [found |-> TRUE, match |-> companies_found[1], score |-> 0]

\* process_company_with_auditorstats up to the website
ChRegistryStep(company_name, ok, companies_found) ==
  LET info == parse_auditorstats_results(companies_found)
  IN IF ok /\ info.found
     THEN StOutcome(IF info.match.company_name # "" THEN info.match.company_name
                    ELSE company_name,
                    <<>>, info.match.uid, info.match.ch_id, "Found",
                    "auditorstats_web")
     ELSE StOutcome(company_name, <<>>, <<>>, <<>>, "Not Found", "auditorstats_web")

\* the company's website as the CH strategy reads it
ChSitePage(uid, ch_id, legal) == [uid |-> uid, ch_id |-> ch_id, legal |-> legal]
ChSitePages ==
  { ChSitePage(<<>>, <<>>, StName), ChSitePage(ChUidSite, <<>>, StName),
    ChSitePage(ChUidSite, ChId, "Acme GmbH") }

\* the website part of process_company_with_auditorstats
ChWebsiteStep(result, company_name, kind, page) ==
  IF kind # "ok" THEN result
  ELSE [result EXCEPT
          !.uid = IF Len(page.uid) > 0 /\ Len(@) = 0 THEN page.uid ELSE @,
          !.search_method = IF Len(page.uid) > 0 /\ Len(result.uid) = 0
                            THEN "website_extraction" ELSE @,
          !.ch_id = IF Len(page.ch_id) > 0 /\ Len(@) = 0 THEN page.ch_id ELSE @,
          !.legal_name = IF page.legal # "" /\ page.legal # company_name /\ @ = ""
                         THEN page.legal ELSE @]

\* len(get_french_paths())
FrenchPathCount == 11

\* what a path of the website gives the FR strategy: the captures of the
\* SIREN patterns and the (name, source) pairs of
\* extract_legal_name_structured_approach; content is FALSE when neither
\* requests nor Selenium returned html
FrPage(content, sirens, names) ==
  [content |-> content, sirens |-> sirens, names |-> names]
SirenSpaced == <<"1", "2", "3", " ", "4", "5", "6", " ", "7", "8", "9">>
SirenOther == <<"9", "8", "7", "6", "5", "4", "3", "2", "1">>
FrPages ==
  { FrPage(FALSE, <<>>, <<>>), FrPage(TRUE, <<>>, <<>>),
    FrPage(TRUE, <<SirenSpaced, SirenOther>>, <<>>),
    FrPage(TRUE, <<>>, << <<"Acme SAS", "title">> >>),
    FrPage(TRUE, <<SirenOther>>, << <<"Acme France SAS", "footer">> >>) }

\* FrenchSIRENExtractor.extract_siren_from_html (<<>> for None)
extract_siren_from_html(page) == FirstCode(page.sirens, 1, 9)

\* what the Annuaire answers to a search
FrListings ==
  { <<>>, <<Cand(<<"0">>, "", 0)>>, <<Cand(<<"5", "5">>, "n55", 55)>>,
    <<Cand(<<"6", "5", "1">>, "n65a", 65), Cand(<<"9", "0">>, "n90", 90)>>,
    <<Cand(<<"4", "0">>, "n40", 40), Cand(<<"5", "0">>, "n50", 50)>> }

\* the result dict of process_single_french_company as first built
FrNewResult == StOutcome("", <<>>, <<>>, <<>>, "not_found", "")

InitStrat ==
  /\ IdleVal /\ IdleReg /\ IdleOrc /\ IdleNl /\ IdleFet /\ IdleTw /\ IdleSim /\ IdleScn /\ IdleNam /\ IdleBat /\ IdlePt /\ IdleAut
  /\ stCountry \in {"GB", "CH", "FR", "IT"}
  /\ stUrl \in StUrls
  /\ stPc = "registry"
  /\ stResult = IF stCountry \in {"FR", "IT"} THEN FrNewResult
                ELSE StOutcome("", <<>>, <<>>, <<>>, "", "")
  /\ stPath = 0
  /\ stFound = [siren |-> <<>>, names |-> <<>>]
  /\ stFetches = <<>>
  /\ stSearch = [http |-> "", listing |-> <<>>]

AfterRegistry == IF stUrl # "" THEN "website" ELSE "done"

UkRegistry ==
  /\ stPc = "registry" /\ stCountry = "GB"
  /\ \E http \in HttpOutcomes, links \in UkListings, details \in UkDetails :
       /\ stResult' = UkRegistryStep(StName, http, links, details)
       /\ stSearch' = [http |-> http, listing |-> links]
       /\ stFetches' = IF UkSearch(http, links).has
                       THEN <<"companies_house_search", "companies_house_company">>
                       ELSE <<"companies_house_search">>
  /\ stPc' = AfterRegistry
  /\ UNCHANGED <<stCountry, stUrl, stPath, stFound, valV, regV, orcV, nlV, fetV, twV, simV, scnV, namV, batV, ptV, autV>>

UkWebsite ==
  /\ stPc = "website" /\ stCountry = "GB"
  /\ \E kind \in SiteKinds, page \in UkSitePages :
       stResult' = UkWebsiteStep(stResult, StName, kind, page)
  /\ stFetches' = Append(stFetches, stUrl)
  /\ stPc' = "done"
  /\ UNCHANGED <<stCountry, stUrl, stPath, stFound, stSearch, valV, regV, orcV, nlV, fetV, twV, simV, scnV, namV, batV, ptV, autV>>

ChRegistry ==
  /\ stPc = "registry" /\ stCountry = "CH"
  /\ \E ok \in BOOLEAN, companies_found \in ChFoundLists :
       /\ stResult' = ChRegistryStep(StName, ok, companies_found)
       /\ stSearch' = [http |-> IF ok THEN "ok" ELSE "raise",
                        listing |-> companies_found]
  /\ stFetches' = <<"auditorstats">>
  /\ stPc' = AfterRegistry
  /\ UNCHANGED <<stCountry, stUrl, stPath, stFound, valV, regV, orcV, nlV, fetV, twV, simV, scnV, namV, batV, ptV, autV>>

ChWebsite ==
  /\ stPc = "website" /\ stCountry = "CH"
  /\ \E kind \in SiteKinds, page \in ChSitePages :
       stResult' = ChWebsiteStep(stResult, StName, kind, page)
  /\ stFetches' = Append(stFetches, stUrl)
  /\ stPc' = "done"
  /\ UNCHANGED <<stCountry, stUrl, stPath, stFound, stSearch, valV, regV, orcV, nlV, fetV, twV, simV, scnV, namV, batV, ptV, autV>>

\* step 1 of process_single_french_company and the test for a website
FrRegistry ==
  /\ stPc = "registry" /\ stCountry = "FR"
  /\ \E http \in HttpOutcomes, listing \in FrListings :
       LET hit == FrSearch(http, listing)
       IN /\ stSearch' = [http |-> http, listing |-> listing]
          /\ IF hit.has /\ Len(hit.id) > 0 /\ NameTruthy(hit.name)
             THEN /\ stResult' = [stResult EXCEPT !.siren = hit.id,
                                    !.legal_name = hit.name, !.status = "found",
                                    !.search_method = "annuaire_entreprises"]
                  /\ stPc' = "done"
             ELSE IF stUrl = ""
             THEN /\ stResult' = [stResult EXCEPT !.status = "no_website"]
                  /\ stPc' = "done"
             ELSE /\ stResult' = stResult
                  /\ stPc' = "scan"
  /\ stFetches' = <<"annuaire">>
  /\ UNCHANGED <<stCountry, stUrl, stPath, stFound, valV, regV, orcV, nlV, fetV, twV, simV, scnV, namV, batV, ptV, autV>>

\* the result after search_website_for_info has returned
FrAfterScan(result, found) ==
  LET named == IF Len(found.names) > 0
               THEN [result EXCEPT !.legal_name_website = found.names[1][1]]
               ELSE result
  IN IF Len(found.siren) > 0
     THEN [named EXCEPT !.siren = found.siren, !.status = "found",
                        !.search_method = "website"]
     ELSE named

\* one path of search_website_for_info of the FR strategy; after the last
\* path, or once a SIREN and a legal name are found, the website step
FrScanPath ==
  /\ stPc = "scan" /\ stCountry = "FR"
  /\ \E page \in FrPages :
       LET found == IF ~page.content THEN stFound
                    ELSE [ siren |-> IF Len(stFound.siren) = 0
                                     THEN extract_siren_from_html(page)
                                     ELSE stFound.siren,
                           names |-> stFound.names \o page.names ]
           over == \/ stPath + 1 = FrenchPathCount
                   \/ page.content /\ Len(found.siren) > 0 /\ Len(found.names) > 0
       IN /\ stFound' = found
          /\ IF ~over THEN stResult' = stResult /\ stPc' = "scan"
             ELSE /\ stResult' = FrAfterScan(stResult, found)
                  /\ stPc' = IF Len(found.siren) = 0 /\ Len(found.names) > 0
                             THEN "registry2" ELSE "done"
  /\ stPath' = stPath + 1
  /\ stFetches' = Append(stFetches, stUrl)
  /\ UNCHANGED <<stCountry, stUrl, stSearch, valV, regV, orcV, nlV, fetV, twV, simV, scnV, namV, batV, ptV, autV>>

\* the Annuaire search with the first website legal name
FrRegistryByName ==
  /\ stPc = "registry2" /\ stCountry = "FR"
  /\ \E http \in HttpOutcomes, listing \in FrListings :
       LET hit == FrSearch(http, listing)
       IN /\ stSearch' = [http |-> http, listing |-> listing]
          /\ stResult' = IF hit.has /\ Len(hit.id) > 0
                          THEN [stResult EXCEPT !.siren = hit.id, !.status = "found",
                                  !.search_method = "annuaire_via_website_name"]
                          ELSE stResult
  /\ stFetches' = Append(stFetches, "annuaire")
  /\ stPc' = "done"
  /\ UNCHANGED <<stCountry, stUrl, stPath, stFound, valV, regV, orcV, nlV, fetV, twV, simV, scnV, namV, batV, ptV, autV>>

\* len(get_italian_paths())
ItalianPathCount == 13

\* what a path of the website gives the IT strategy: the VAT code of
\* extract_vat_from_html (<<>> for None) and the (name, source) pairs of
\* extract_legal_name_italian_approach
ItPage(content, vat, names) == [content |-> content, vat |-> vat, names |-> names]
ItPages ==
  { ItPage(FALSE, <<>>, <<>>), ItPage(TRUE, <<>>, <<>>),
    ItPage(TRUE, <<"0", "1", "2">>, <<>>),
    ItPage(TRUE, <<>>, << <<"Acme S.r.l.", "title">> >>),
    ItPage(TRUE, <<"0", "7", "7">>, << <<"Acme Italia S.p.A.", "footer">> >>) }

ItFooterSources == {"footer_with_vat", "footer", "end_of_page"}

\* the test for a website, left without the no_website status
ItStartKeepsNotFound(result, website) == result

\* process_single_italian_company: if not website
ItStartStep(result, website) ==
  IF website = "" THEN [result EXCEPT !.status = "no_website"] ELSE result

ItStart ==
  /\ stPc = "registry" /\ stCountry = "IT"
  /\ stResult' = ItStartStep(stResult, stUrl)
  /\ stPc' = IF stUrl = "" THEN "done" ELSE "scan"
  /\ UNCHANGED <<stCountry, stUrl, stPath, stFound, stFetches, stSearch,
                 valV, regV, orcV, nlV, fetV, twV, simV, scnV, namV, batV, ptV, autV>>

\* the result after search_website_for_info of the IT strategy has returned
ItAfterScan(result, found) ==
  LET named == IF Len(found.names) > 0
               THEN [result EXCEPT !.legal_name_website = found.names[1][1]]
               ELSE result
  IN IF Len(found.siren) > 0
     THEN [named EXCEPT !.vat_code = found.siren, !.status = "found",
                        !.search_method = "website"]
     ELSE [named EXCEPT !.status = "vat_not_found"]

\* one path of search_website_for_info of the IT strategy (found_vat is kept
\* in the siren field of stFound); the loop ends after the last path, or on
\* a page with a footer legal name once a VAT code is found
ItScanPath ==
  /\ stPc = "scan" /\ stCountry = "IT"
  /\ \E page \in ItPages :
       LET found == IF ~page.content THEN stFound
                    ELSE [ siren |-> IF Len(stFound.siren) = 0 THEN page.vat
                                     ELSE stFound.siren,
                           names |-> stFound.names \o page.names ]
           over == \/ stPath + 1 = ItalianPathCount
                   \/ /\ page.content /\ Len(found.siren) > 0
                      /\ \E k \in 1..Len(page.names) :
                           page.names[k][2] \in ItFooterSources
       IN /\ stFound' = found
          /\ IF ~over THEN stResult' = stResult /\ stPc' = "scan"
             ELSE stResult' = ItAfterScan(stResult, found) /\ stPc' = "done"
  /\ stPath' = stPath + 1
  /\ stFetches' = Append(stFetches, stUrl)
  /\ UNCHANGED <<stCountry, stUrl, stSearch, valV, regV, orcV, nlV, fetV, twV, simV, scnV, namV, batV, ptV, autV>>

NextStrat ==
  \/ UkRegistry \/ UkWebsite \/ ChRegistry \/ ChWebsite
  \/ FrRegistry \/ FrScanPath \/ FrRegistryByName
  \/ ItStart \/ ItScanPath

SpecStrat == InitStrat /\ [][NextStrat]_vars

\* one resolution by one of the strategies, the NL strategy included
InitAny == InitStrat \/ InitNl
NextAny == NextStrat \/ NextNl
SpecAny == InitAny /\ [][NextAny]_vars

\* the result carries an identifier
HasIdentifier(r) ==
  Len(r.company_number) > 0 \/ Len(r.uid) > 0 \/ Len(r.ch_id) > 0
    \/ Len(r.siren) > 0 \/ Len(r.vat_code) > 0

\* C4: an outcome of status Found carries at least one non-empty identifier.
C4_FoundHasIdentifier ==
  stResult.status \in {"Found", "found"} => HasIdentifier(stResult)

\* the registry step has finished with an identifier in the result
RegistryHit == stPc # "registry" /\ HasIdentifier(stResult)

\* C5: once the registry step has produced a result with an identifier, no
\* later step runs: no further request is sent and the identifier and the
\* legal name are not replaced.
C5_NothingAfterRegistryHit ==
  [][ RegistryHit
      => /\ stFetches' = stFetches
         /\ stResult'.company_number = stResult.company_number
         /\ stResult'.uid = stResult.uid
         /\ stResult'.ch_id = stResult.ch_id
         /\ stResult'.siren = stResult.siren
         /\ stResult'.legal_name = stResult.legal_name ]_vars

\* the registry step has just run and the registry listed several
\* candidates, none of them above the threshold of the jurisdiction
SeveralNoneAbove(country, threshold) ==
  /\ stCountry = country /\ stPc # "registry" /\ Len(stFetches) = 1
  /\ stSearch.http = "ok" /\ Len(stSearch.listing) >= 2
  /\ \A k \in 1..Len(stSearch.listing) : stSearch.listing[k].sim <= threshold

\* the registry step reported no hit and the strategy went on
NoRegistryHit ==
  /\ ~HasIdentifier(stResult)
  /\ stResult.status \notin {"Found", "found"}
  /\ stUrl # "" => stPc \in {"scan", "website"}

\* C11 as stated: when the registry lists several candidates and none is
\* above the threshold, the registry step reports no hit and the strategy
\* continues, in the FR strategy and in the CH strategy.
C11_BelowThresholdNoHit ==
  (SeveralNoneAbove("FR", FrThreshold) \/ SeveralNoneAbove("CH", ChThreshold))
  => NoRegistryHit

\* C11 amended: in the FR strategy several candidates none of which is above
\* the threshold give no hit (no SIREN, no legal name, the website step is
\* next); parse_auditorstats_results returns the first company found in that
\* case, and the CH strategy reports it as Found.
C11_FrNoHitChFirstFound ==
  /\ SeveralNoneAbove("FR", FrThreshold)
     => NoRegistryHit /\ stResult.legal_name = ""
  /\ SeveralNoneAbove("CH", ChThreshold)
     => /\ stResult.status = "Found"
        /\ stResult.uid = stSearch.listing[1].uid
        /\ stResult.ch_id = stSearch.listing[1].ch_id

C11_Witness ==
  SeveralNoneAbove("FR", FrThreshold) /\ stPc = "scan"

\* a finished resolution of a query without a website that found no
\* identifier
NoWebsiteNoMatch(country) ==
  IF country = "NL"
  THEN nlPc = "done" /\ nlWebsite = "" /\ ~Truthy(nlResult.kvk_number)
  ELSE /\ stCountry = country /\ stPc = "done" /\ stUrl = ""
       /\ ~HasIdentifier(stResult)

\* C12 as stated: without a website and without a registry match the status
\* is no_website in the IT strategy (no registry step) and not_found in the
\* FR and NL strategies (the registry step ran and found nothing).
C12_NoWebsiteStatusByRegistryStep ==
  /\ NoWebsiteNoMatch("IT") => stResult.status = "no_website"
  /\ NoWebsiteNoMatch("FR") => stResult.status = "not_found"
  /\ NoWebsiteNoMatch("NL") => nlResult.status = "not_found"

\* C12 amended: without a website and without a registry match the status is
\* no_website in the IT strategy, which sends no request, and also in the FR
\* and NL strategies, whose registry step ran and found nothing.
C12_NoWebsiteStatus ==
  /\ NoWebsiteNoMatch("IT") => stResult.status = "no_website" /\ stFetches = <<>>
  /\ NoWebsiteNoMatch("FR")
     => stResult.status = "no_website" /\ stFetches = <<"annuaire">>
  /\ NoWebsiteNoMatch("NL") => nlResult.status = "no_website"

C12_Witness ==
  NoWebsiteNoMatch("FR") /\ stResult.status = "no_website"

-----------------------------------------------------------------------------
(* Page fetches of search_website_for_info (new_vat_extractor_france2.py,   *)
(* new_vat_extractor_nl.py)                                                 *)

\* html_content: None, or the text of the page
NoHtml == [none |-> TRUE, text |-> ""]
Html(text) == [none |-> FALSE, text |-> text]
HtmlTruthy(h) == ~h.none /\ h.text # ""

PageTexts == {"", "<html>"}

\* what session.get does: it raises, or it returns a response
GetRaises == {"Timeout", "ConnectionError"}
Responses ==
  [ exc : {"none"}, status : {200, 300, 404, 503},
    ctype : {"text/html", "application/pdf"}, text : PageTexts ]
GetOutcomes ==
  [ exc : GetRaises, status : {0}, ctype : {""}, text : {""} ] \cup Responses

\* what the browser does: webdriver.Chrome(...) starts or raises, and
\* driver.get / WebDriverWait raise or leave a page source
DriverStarts == {"ok", "WebDriverException"}
LoadOutcomes ==
  [ exc : {"TimeoutException", "WebDriverException"}, text : {""} ]
    \cup [ exc : {"none"}, text : PageTexts ]

\* the subclasses of requests.exceptions.RequestException
RequestExceptions == {"Timeout", "ConnectionError", "HTTPError"}

\* response.raise_for_status(): HTTPError for a 4xx or 5xx status
raise_for_status(status) ==
  IF status >= 400 /\ status < 600 THEN "HTTPError" ELSE "none"

\* the except clause of fetch_with_requests: Exception in the FR extractor,
\* requests.exceptions.RequestException in the NL extractor
Caught(country, exc) ==
  IF country = "FR" THEN TRUE ELSE exc \in RequestExceptions

\* what a call returns: raised is the exception that reaches the caller
Returned(html) == [called |-> TRUE, raised |-> "none", html |-> html]
Raised(exc) == [called |-> TRUE, raised |-> exc, html |-> NoHtml]
NotCalled == [called |-> FALSE, raised |-> "none", html |-> NoHtml]

\* an except clause that lets every exception through
fetch_with_requests_uncaught(country, get) ==
  LET exc == IF get.exc # "none" THEN get.exc ELSE raise_for_status(get.status)
  IN IF exc # "none" THEN Raised(exc) ELSE Returned(Html(get.text))

fetch_with_requests(country, get) ==
  LET exc == IF get.exc # "none" THEN get.exc ELSE raise_for_status(get.status)
  IN IF exc # "none"
     THEN IF Caught(country, exc) THEN Returned(NoHtml) ELSE Raised(exc)
     ELSE IF country = "NL" /\ get.ctype \notin {"text/html"}
     THEN Returned(NoHtml)
     ELSE Returned(Html(get.text))

\* a browser that is dropped when it is asked for a second time
setup_selenium_drops_driver(driver, start) ==
  IF driver # "None" THEN "None"
  ELSE IF start = "ok" THEN "driver" ELSE "None"

\* setup_selenium: self.driver after the call
setup_selenium(driver, start) ==
  IF driver # "None" THEN driver
  ELSE IF start = "ok" THEN "driver" ELSE "None"

\* fetch_with_selenium, given self.driver after setup_selenium
fetch_with_selenium(driver, load) ==
  IF driver = "None" THEN Returned(NoHtml)
  ELSE IF load.exc # "none" THEN Returned(NoHtml)
  ELSE Returned(Html(load.text))

FetchCountries == {"FR", "NL"}
PathCount(country) == IF country = "FR" THEN FrenchPathCount ELSE DutchPathCount

InitFetch ==
  /\ IdleVal /\ IdleReg /\ IdleOrc /\ IdleNl /\ IdleSt /\ IdleTw /\ IdleSim /\ IdleScn /\ IdleNam /\ IdleBat /\ IdlePt /\ IdleAut
  /\ fCountry \in FetchCountries
  /\ fDriver = "None"
  /\ fPath = 0
  /\ fNet = [req |-> "none"]
  /\ fReq = NotCalled
  /\ fSel = NotCalled

\* one path of search_website_for_info, up to "if html_content:"; the
\* requests fetch gave html_content
FetchByRequests ==
  /\ fPath < PathCount(fCountry)
  /\ \E get \in GetOutcomes :
       LET r == fetch_with_requests(fCountry, get)
       IN /\ r.raised # "none" \/ HtmlTruthy(r.html)
          /\ fNet' = [req |-> "get", get |-> get]
          /\ fReq' = r
  /\ fSel' = NotCalled
  /\ fPath' = fPath + 1
  /\ UNCHANGED <<fCountry, fDriver, valV, regV, orcV, nlV, stV, twV, simV, scnV, namV, batV, ptV, autV>>

\* one path of search_website_for_info, up to "if html_content:"; the
\* requests fetch gave nothing and fetch_with_selenium is called
FetchBySelenium ==
  /\ fPath < PathCount(fCountry)
  /\ \E get \in GetOutcomes, start \in DriverStarts, load \in LoadOutcomes :
       LET r == fetch_with_requests(fCountry, get)
           driver == setup_selenium(fDriver, start)
       IN /\ r.raised = "none" /\ ~HtmlTruthy(r.html)
          /\ fNet' = [req |-> "get+browser", get |-> get, start |-> start,
                       load |-> load]
          /\ fReq' = r
          /\ fDriver' = driver
          /\ fSel' = fetch_with_selenium(driver, load)
  /\ fPath' = fPath + 1
  /\ UNCHANGED <<fCountry, valV, regV, orcV, nlV, stV, twV, simV, scnV, namV, batV, ptV, autV>>

NextFetch == FetchByRequests \/ FetchBySelenium

SpecFetch == InitFetch /\ [][NextFetch]_vars

\* the browser did not start, or the page did not load
SeleniumFailed == fDriver = "None" \/ fNet.load.exc # "none"

\* neither fetch function raised to search_website_for_info, and a fetch
\* that failed returned None; failed(get) says which requests count as failed
FailuresGiveNone(failed(_)) ==
  fReq.called
  => /\ fReq.raised = "none" /\ fSel.raised = "none"
     /\ failed(fNet.get) => fReq.html = NoHtml
     /\ fSel.called /\ SeleniumFailed => fSel.html = NoHtml

Non2xx(get) == get.exc # "none" \/ get.status < 200 \/ get.status >= 300
ErrorStatus(get) == get.exc # "none" \/ get.status >= 400

C14_OneOutcomePerRowInOrder ==
  /\ oMode = "batch"
     => /\ Len(results) = idx
        /\ \A i \in 1..idx :
             /\ results[i].company_name = Strip(PyStr(df[i].name))
             /\ results[i].website = RowWebsite(cols.website, df[i].website)
             /\ log[i].extractor = RowCountryCode(cols.country, df[i].country)
  /\ (oMode = "portfolio" /\ \A i \in 1..Len(df) : df[i].name # "")
     => /\ Len(results) = idx
        /\ \A i \in 1..idx :
             /\ results[i].portfolio_company = df[i].name
             /\ results[i].company_url = df[i].url

\* a finished portfolio of two different companies
C14_Witness ==
  /\ oMode = "portfolio" /\ idx = Len(df) /\ Len(df) = 2
  /\ df[1].name = "Beta" /\ df[2].name = CompanyName
  /\ df[1].url = "" /\ df[2].url = WebsiteUrl
  /\ Len(results) = 2

\* C16: when the frame has no country column, every row of the batch is
\* dispatched to the extractor of the default country the caller chose in
\* the 'Default Country' selector.
C16_NoCountryColumnUsesDefault ==
  (oMode = "batch" /\ ~cols.country)
  => \A i \in 1..idx : log[i].extractor = oArgs.country_code

-----------------------------------------------------------------------------
(* The same query resolved twice on one extractor instance                  *)

MaxFixturePaths == 2

\* what the extraction functions of the FR extractor read in a page text
FrParse(text) ==
  CASE text = "<siren>" -> FrPage(TRUE, <<SirenSpaced>>, <<>>)
    [] text = "<name>" -> FrPage(TRUE, <<>>, << <<"Acme SAS", "title">> >>)
    [] text = "<siren+name>" ->
         FrPage(TRUE, <<SirenOther>>, << <<"Acme France SAS", "footer">> >>)
    [] OTHER -> FrPage(TRUE, <<>>, <<>>)

\* a path of the fixture site: what session.get and the browser do there
SitePath(get, load) == [get |-> get, load |-> load]
NothingPath ==
  SitePath([exc |-> "ConnectionError", status |-> 0, ctype |-> "", text |-> ""],
           [exc |-> "TimeoutException", text |-> ""])
SitePaths ==
  { NothingPath }
  \cup { SitePath([exc |-> "none", status |-> 200, ctype |-> "text/html", text |-> t],
                  [exc |-> "none", text |-> t]) : t \in {"<siren>", "<name>", "<siren+name>"} }
  \cup { SitePath([exc |-> "none", status |-> 503, ctype |-> "text/html", text |-> ""],
                  [exc |-> "none", text |-> t]) : t \in {"<siren>", "<name>"} }

\* the names the FR strategy can search the Annuaire for, and what the
\* Annuaire lists for each
FixtureNames == {StName, "Acme SAS", "Acme France SAS"}
FixtureListings ==
  { <<>>, <<Cand(<<"6", "5", "1">>, "n65a", 65), Cand(<<"6", "5", "2">>, "n65b", 65)>>,
    <<Cand(<<"4", "0">>, "n40", 40), Cand(<<"5", "0">>, "n50", 50)>> }
FrFixtures ==
  [ kind : {"FR"}, reg : [FixtureNames -> FixtureListings],
    paths : [1..MaxFixturePaths -> SitePaths], start : DriverStarts ]

\* search_website_for_info of the FR extractor from path k on: the names and
\* SIREN found, and self.driver afterwards
RECURSIVE FrScan(_, _, _, _)
FrScan(fix, k, found, driver) ==
  IF k > FrenchPathCount THEN [found |-> found, driver |-> driver]
  ELSE LET p == IF k <= Len(fix.paths) THEN fix.paths[k] ELSE NothingPath
           r == fetch_with_requests("FR", p.get)
           d == IF HtmlTruthy(r.html) THEN driver
                ELSE setup_selenium(driver, fix.start)
           html == IF HtmlTruthy(r.html) THEN r.html
                   ELSE fetch_with_selenium(d, p.load).html
           page == FrParse(html.text)
           now == IF ~HtmlTruthy(html) THEN found
                  ELSE [ siren |-> IF Len(found.siren) = 0
                                   THEN extract_siren_from_html(page)
                                   ELSE found.siren,
                         names |-> found.names \o page.names ]
       IN IF HtmlTruthy(html) /\ Len(now.siren) > 0 /\ Len(now.names) > 0
          THEN [found |-> now, driver |-> d]
          ELSE FrScan(fix, k + 1, now, d)

\* process_single_french_company against a fixture: the result, and
\* self.driver afterwards
FrResolve(company_name, website, fix, driver) ==
  LET hit == FrSearch("ok", fix.reg[company_name])
  IN IF hit.has /\ Len(hit.id) > 0 /\ NameTruthy(hit.name)
     THEN [ result |-> [FrNewResult EXCEPT !.siren = hit.id, !.legal_name = hit.name,
                          !.status = "found", !.search_method = "annuaire_entreprises"],
            driver |-> driver ]
     ELSE IF website = ""
     THEN [result |-> [FrNewResult EXCEPT !.status = "no_website"], driver |-> driver]
     ELSE LET scan == FrScan(fix, 1, [siren |-> <<>>, names |-> <<>>], driver)
              after == FrAfterScan(FrNewResult, scan.found)
              again == IF Len(scan.found.siren) = 0 /\ Len(scan.found.names) > 0
                       THEN FrSearch("ok", fix.reg[scan.found.names[1][1]])
                       ELSE NoSel
          IN [ result |-> IF again.has /\ Len(again.id) > 0
                          THEN [after EXCEPT !.siren = again.id, !.status = "found",
                                  !.search_method = "annuaire_via_website_name"]
                          ELSE after,
               driver |-> scan.driver ]

InitTwice ==
  /\ IdleVal /\ IdleReg /\ IdleOrc /\ IdleNl /\ IdleSt /\ IdleFet /\ IdleSim /\ IdleScn /\ IdleNam /\ IdleBat /\ IdlePt /\ IdleAut
  /\ \/ /\ tQuery \in [kind : {"FR"}, website : StUrls]
        /\ tFix \in FrFixtures
     \/ /\ tQuery \in [kind : {"orchestrator"}, website : StUrls,
                        country_code : SupportedCodes \cup {"ES"}]
        /\ tFix \in Envs
  /\ tDriver = "None"
  /\ tResults = <<>>

\* process_single_french_company called with the query
ResolveFr ==
  /\ tQuery.kind = "FR" /\ Len(tResults) < 2
  /\ LET r == FrResolve(StName, tQuery.website, tFix, tDriver)
     IN /\ tResults' = Append(tResults, r.result)
        /\ tDriver' = r.driver
  /\ UNCHANGED <<tQuery, tFix, valV, regV, orcV, nlV, stV, fetV, simV, scnV, namV, batV, ptV, autV>>

\* process_single_company of the orchestrator called with the query
ResolveOrchestrator ==
  /\ tQuery.kind = "orchestrator" /\ Len(tResults) < 2
  /\ tResults' = Append(tResults,
                    process_single_company(CompanyName, tQuery.website,
                                           tQuery.country_code, tFix).result)
  /\ UNCHANGED <<tQuery, tFix, tDriver, valV, regV, orcV, nlV, stV, fetV, simV, scnV, namV, batV, ptV, autV>>

NextTwice == ResolveFr \/ ResolveOrchestrator

SpecTwice == InitTwice /\ [][NextTwice]_vars

\* C15: the second resolution of a query on the same extractor instance,
\* against the same registry and page fixtures, returns the outcome the first
\* one returned, whatever the first one left in self.driver; this includes
\* registries that list candidates of equal similarity.
C15_SecondOutcomeEqualsFirst ==
  Len(tResults) = 2 => tResults[2] = tResults[1]

\* two resolutions by the FR strategy: the first started the browser, and
\* the Annuaire lists two candidates of equal similarity for the name read
\* on the website
C15_Witness ==
  /\ tQuery.kind = "FR" /\ Len(tResults) = 2 /\ tDriver = "driver"
  /\ tResults[1].status = "found"
  /\ tResults[1].search_method = "annuaire_via_website_name"
  /\ tResults[2].siren = <<"6", "5", "1">>

-----------------------------------------------------------------------------
(* similarity(a, b) of the extractors                                       *)

MaxSimLen == 3

\* the alphabet of the names compared ("A" arises by upper-casing)
SimChars == {"a", "s", "S", "ß", "."}

\* str.lower() and str.upper() on the alphabet: 'ß'.upper() is 'SS'
CharLower(c) == CASE c = "S" -> "s" [] c = "A" -> "a" [] OTHER -> c
CharUpperSeq(c) ==
  CASE c = "a" -> <<"A">> [] c = "s" -> <<"S">> [] c = "ß" -> <<"S", "S">>
    [] OTHER -> <<c>>
\* unidecode.unidecode() of one character
CharUnidecode(c) == IF c = "ß" THEN <<"s", "s">> ELSE <<c>>

RECURSIVE Flat(_)
Flat(ss) == IF Len(ss) = 0 THEN <<>> ELSE Head(ss) \o Flat(Tail(ss))

lower(s) == [i \in 1..Len(s) |-> CharLower(s[i])]
PyUpper(s) == Flat([i \in 1..Len(s) |-> CharUpperSeq(s[i])])
unidecode(s) == Flat([i \in 1..Len(s) |-> CharUnidecode(s[i])])

\* re.sub(r'\s+', ' ', s).strip() of a string whose only whitespace is ' '
RECURSIVE CollapseStrip(_, _)
CollapseStrip(s, out) ==
  IF Len(s) = 0
  THEN IF Len(out) > 0 /\ out[Len(out)] = " " THEN SubSeq(out, 1, Len(out) - 1)
       ELSE out
  ELSE IF Head(s) = " " /\ (Len(out) = 0 \/ out[Len(out)] = " ")
       THEN CollapseStrip(Tail(s), out)
       ELSE CollapseStrip(Tail(s), Append(out, Head(s)))

\* normalize(s) of DutchKvKExtractor.similarity
normalize(s) ==
  LET t == unidecode(lower(s))
      u == [i \in 1..Len(t) |-> IF t[i] = "." THEN " " ELSE t[i]]
  IN CollapseStrip(u, <<>>)

\* length of the common run of a from i and b from j, within a[..ahi], b[..bhi]
RECURSIVE MatchLen(_, _, _, _, _, _)
MatchLen(a, b, i, j, ahi, bhi) ==
  IF i > ahi \/ j > bhi THEN 0
  ELSE IF a[i] # b[j] THEN 0
  ELSE 1 + MatchLen(a, b, i + 1, j + 1, ahi, bhi)

\* SequenceMatcher.find_longest_match without junk: the longest block, of
\* those the one starting earliest in a, of those the one earliest in b
find_longest_match(a, b, alo, ahi, blo, bhi) ==
  LET starts == (alo..ahi) \X (blo..bhi)
      size(p) == MatchLen(a, b, p[1], p[2], ahi, bhi)
      best == CHOOSE p \in starts :
                \A q \in starts :
                  \/ size(p) > size(q)
                  \/ /\ size(p) = size(q)
                     /\ p[1] < q[1] \/ (p[1] = q[1] /\ p[2] <= q[2])
  IN [i |-> best[1], j |-> best[2], size |-> size(best)]

\* the number of matching characters of SequenceMatcher.get_matching_blocks
RECURSIVE Matches(_, _, _, _, _, _)
Matches(a, b, alo, ahi, blo, bhi) ==
  IF alo > ahi \/ blo > bhi THEN 0
  ELSE LET m == find_longest_match(a, b, alo, ahi, blo, bhi)
       IN IF m.size = 0 THEN 0
          ELSE m.size + Matches(a, b, alo, m.i - 1, blo, m.j - 1)
                      + Matches(a, b, m.i + m.size, ahi, m.j + m.size, bhi)

\* a score 2.0 * matches / total, 1.0 when total is 0
Score(matches, total) == [called |-> TRUE, matches |-> matches, total |-> total]
ratio(a, b) == Score(Matches(a, b, 1, Len(a), 1, Len(b)), Len(a) + Len(b))
\* the integer 0 the guarded functions return
Zero == Score(0, 1)

\* the three forms of similarity: "plain" (FR, DE, IT, AT, CH, LU, PT and UK
\* extractors), "guarded" (the extractors of the orchestrator) and "NL"
SimKinds == {"plain", "guarded", "NL"}

\* similarity that compares the strings as they are
similarity_case_sensitive(kind, a, b) ==
  IF kind # "plain" /\ (Len(a) = 0 \/ Len(b) = 0) THEN Zero
  ELSE ratio(a, b)

similarity(kind, a, b) ==
  IF kind # "plain" /\ (Len(a) = 0 \/ Len(b) = 0) THEN Zero
  ELSE IF kind = "NL" THEN ratio(normalize(a), normalize(b))
  ELSE ratio(lower(a), lower(b))

SimStrings == UNION {[1..n -> SimChars] : n \in 0..MaxSimLen}
SimPairs ==
  LET near(a) == {a, <<>>, PyUpper(a), lower(a)}
  IN UNION { UNION { {<<a, b>>, <<b, a>>} : b \in near(a) } : a \in SimStrings }

InitSim ==
  /\ IdleVal /\ IdleReg /\ IdleOrc /\ IdleNl /\ IdleSt /\ IdleFet /\ IdleTw /\ IdleScn /\ IdleNam /\ IdleBat /\ IdlePt /\ IdleAut
  /\ sKind \in SimKinds
  /\ \E p \in SimPairs : sA = p[1] /\ sB = p[2]
  /\ sScore = [called |-> FALSE]

CallSimilarity ==
  /\ ~sScore.called
  /\ sScore' = similarity(sKind, sA, sB)
  /\ UNCHANGED <<sKind, sA, sB, valV, regV, orcV, nlV, stV, fetV, twV, scnV, namV, batV, ptV, autV>>

NextSim == CallSimilarity

SpecSim == InitSim /\ [][NextSim]_vars

IsOne(score) == score.total = 0 \/ 2 * score.matches = score.total
IsZero(score) == score.total > 0 /\ score.matches = 0
Above90(score) == score.total = 0 \/ 20 * score.matches > 9 * score.total

\* similarity(a, a) = 1.0 for non-empty a, and similarity("", x) = 0 for
\* non-empty x
SelfOneEmptyZero ==
  /\ (Len(sA) > 0 /\ sB = sA) => IsOne(sScore)
  /\ (Len(sA) = 0 /\ Len(sB) > 0) => IsZero(sScore)

\* a is not empty and b is a with some of its letters in the other case
\* (position by position: 'SS' for 'ß' is a different string, not a case
\* variant)
CaseVariant(a, b) ==
  /\ Len(a) > 0 /\ Len(a) = Len(b)
  /\ \A i \in 1..Len(a) :
       a[i] = b[i] \/ {a[i], b[i]} \in {{"s", "S"}, {"a", "A"}}

-----------------------------------------------------------------------------
(* search_website_for_info of the FR, NL and DE extractors, the lookups     *)
(* that follow it, and LuxembourgCompanyExtractor.process_company           *)

\* the number of leading paths of the list that a site can answer with html;
\* the later ones give None
MaxLivePaths == 3

get_french_paths ==
  << "", "/contact", "/contacts", "/nous-contacter", "/a-propos",
     "/qui-sommes-nous", "/notre-societe", "/about", "/mentions-legales",
     "/legal", "/informations-legales" >>
get_dutch_paths ==
  << "", "/contact", "/contactgegevens", "/contact-us", "/contact-info",
     "/over-ons", "/about", "/about-us", "/bedrijfsinfo",
     "/bedrijfsinformatie", "/algemene-voorwaarden", "/legal", "/juridisch",
     "/colofon", "/impressum", "/privacy", "/privacy-policy",
     "/privacybeleid", "/footer", "/imprint", "/company-info" >>
get_german_paths ==
  << "", "/kontakt", "/contact", "/kontaktieren", "/ueber-uns", "/uber-uns",
     "/about", "/about-us", "/impressum", "/legal", "/rechtliches",
     "/datenschutz" >>
ScanPaths(country) ==
  CASE country = "FR" -> get_french_paths
    [] country = "NL" -> get_dutch_paths
    [] country = "DE" -> get_german_paths
    [] OTHER -> <<"">>

\* a legal-name candidate a page carries that passed the filters of the
\* extractor: its text, where it was met, and self.similarity(name,
\* company_name) for the query "Acme", in percent
Name(name, source, sim) == [name |-> name, source |-> source, sim |-> sim]

\* insertion of x into a list sorted by descending score, after its equals
\* (list.sort(key=score, reverse=True) is stable)
RECURSIVE InsertByScore(_, _)
InsertByScore(sorted, x) ==
  IF Len(sorted) = 0 THEN <<x>>
  ELSE IF Head(sorted).sim >= x.sim
       THEN <<Head(sorted)>> \o InsertByScore(Tail(sorted), x)
       ELSE <<x>> \o sorted

RECURSIVE SortByScore(_, _)
SortByScore(names, k) ==
  IF k = 0 THEN <<>> ELSE InsertByScore(SortByScore(names, k - 1), names[k])

\* unique_names: the first occurrence of every name, in order
UniqueNames(names) ==
  SelectSeq([k \in 1..Len(names) |->
               IF \E j \in 1..(k - 1) : names[j].name = names[k].name
               THEN Name("", "", 0) ELSE names[k]],
            LAMBDA n : n.name # "")

\* extract_legal_name_structured_approach (FR, DE) and
\* extract_legal_name_from_website (NL, the best five) of a page
extract_legal_name(country, page) ==
  LET unique == UniqueNames(page.names)
      sorted == SortByScore(unique, Len(unique))
  IN IF country = "NL" /\ Len(sorted) > 5 THEN SubSeq(sorted, 1, 5) ELSE sorted

\* the captures of a German page
UpperLetters == {"A", "B", "D", "E", "H", "R"}
AllDigits(s, lo, hi) == lo <= hi /\ \A i \in lo..hi : s[i] \in AsciiDigits
\* str.strip()
RECURSIVE StripSeq(_)
StripSeq(s) ==
  IF Len(s) = 0 THEN s
  ELSE IF Head(s) = " " THEN StripSeq(Tail(s))
  ELSE IF s[Len(s)] = " " THEN StripSeq(SubSeq(s, 1, Len(s) - 1))
  ELSE s
\* re.match(r'^[0-9]{2,3}\/[0-9]{3,4}\/[0-9]{4,5}$', clean_code)
IsSteuernummer(c) ==
  \E i \in 3..4, j \in 7..9 :
    /\ j < Len(c) /\ c[i] = "/" /\ c[j] = "/"
    /\ AllDigits(c, 1, i - 1)
    /\ j - i - 1 \in 3..4 /\ AllDigits(c, i + 1, j - 1)
    /\ Len(c) - j \in 4..5 /\ AllDigits(c, j + 1, Len(c))
\* re.match(r'^[A-Z]{2}[0-9]{9}$', clean_code)
IsUstIdNr(c) ==
  Len(c) = 11 /\ c[1] \in UpperLetters /\ c[2] \in UpperLetters /\ AllDigits(c, 3, 11)
\* re.match(r'^[A-Z]{2,3}\s*[0-9]+$', clean_code)
IsRegisterNumber(c) ==
  \E n \in 2..3, m \in 2..Len(c) :
    /\ n <= m /\ m < Len(c)
    /\ \A i \in 1..n : c[i] \in UpperLetters
    /\ \A i \in (n + 1)..m : c[i] = " "
    /\ AllDigits(c, m + 1, Len(c))
\* the kind found_numbers records for a capture, "" when none is recorded
TaxType(code) ==
  LET clean_code == StripSeq(code)
  IN CASE IsSteuernummer(clean_code) -> "Steuernummer"
       [] ~IsSteuernummer(clean_code) /\ IsUstIdNr(clean_code) -> "USt-IdNr"
       [] ~IsSteuernummer(clean_code) /\ ~IsUstIdNr(clean_code)
          /\ (IsRegisterNumber(clean_code) \/ AllDigits(clean_code, 1, Len(clean_code)))
            -> "Handelsregister"
       [] OTHER -> ""

\* GermanyTaxExtractor.extract_tax_number_from_html: page.tax holds the
\* captures in the order the loops meet them (pattern by pattern, each in
\* document order)
extract_tax_number_from_html(page) ==
  SelectSeq([k \in 1..Len(page.tax) |->
               [type |-> TaxType(page.tax[k]), number |-> StripSeq(page.tax[k])]],
            LAMBDA t : t.type # "")

\* process_single_german_company: the tax numbers organised by type, each
\* entry of the list assigned to the key of its type in turn
DeKey(tax_type) ==
  CASE tax_type = "Steuernummer" -> "steuernummer"
    [] tax_type = "USt-IdNr" -> "ust_idnr"
    [] OTHER -> "handelsregister"
DeKinds == {"steuernummer", "ust_idnr", "handelsregister"}
RECURSIVE Organize(_, _, _)
Organize(ids, tax, k) ==
  IF k > Len(tax) THEN ids
  ELSE Organize([ids EXCEPT ![DeKey(tax[k].type)] = tax[k].number], tax, k + 1)

\* the leading characters of LuxembourgCompanyExtractor.vat_patterns
vat_patterns == << <<"L", "U">>, <<"V", "A", "T">>, <<"B">> >>
\* str.startswith
StartsWith(s, prefix) ==
  Len(s) >= Len(prefix) /\ SubSeq(s, 1, Len(prefix)) = prefix

\* LuxembourgCompanyExtractor.extract_codes_from_html: page.hits holds the
\* index of the pattern and the capture of every match, in the order the
\* loops meet them; a key that is not set is <<>>
RECURSIVE LuCodes(_, _, _)
LuCodes(codes, hits, k) ==
  IF k > Len(hits) THEN codes
  ELSE LET pattern == vat_patterns[hits[k].pattern]
           code == hits[k].code
       IN LuCodes(
            IF StartsWith(pattern, <<"L", "U">>) /\ Len(code) = 8
            THEN [codes EXCEPT !["vat"] = <<"L", "U">> \o code]
            ELSE IF StartsWith(pattern, <<"B">>) /\ Len(code) = 6
            THEN [codes EXCEPT !["registration_no"] = <<"B">> \o code]
            ELSE codes,
            hits, k + 1)
LuNoCodes == [kind \in {"vat", "registration_no"} |-> <<>>]
lu_extract_codes_from_html(page) == LuCodes(LuNoCodes, page.hits, 1)

\* the pages of the sites
BtwOther == <<"1", "1", "1", "1", "1", "1", "1", "1", "0">>
St1 == <<"1", "2", "/", "3", "4", "5", "/", "6", "7", "8", "9">>
St2 == <<"2", "1", "/", "4", "5", "6", "7", "/", "8", "9", "0", "1", "2">>
Ust == <<"D", "E", "1", "2", "3", "4", "5", "6", "7", "8", "9">>
UstLower == <<"d", "e", "1", "2", "3", "4", "5", "6", "7", "8", "9">>
Hrb == <<"H", "R", "B", " ", "1", "2">>
HrbNumber == <<"4", "2">>
DePage(content, tax, names) == [content |-> content, tax |-> tax, names |-> names]
LuHit(pattern, code) == [pattern |-> pattern, code |-> code]
Lu8a == <<"1", "2", "3", "4", "5", "6", "7", "8">>
Lu8b == <<"8", "7", "6", "5", "4", "3", "2", "1">>
Lu6a == <<"1", "2", "3", "4", "5", "6">>
Lu6b == <<"6", "5", "4", "3", "2", "1">>
LuPage(get, hits) == [content |-> get = "200", get |-> get, hits |-> hits]

ScanPages(country) ==
  CASE country = "FR" ->
         { FrPage(FALSE, <<>>, <<>>), FrPage(TRUE, <<>>, <<>>),
           FrPage(TRUE, <<SirenSpaced, SirenOther>>, <<>>),
           FrPage(TRUE, <<>>, <<Name("Acme France SAS", "title", 42)>>),
           FrPage(TRUE, <<>>, << Name("Groupe Acme SAS", "title", 42),
                                 Name("Acme Group SAS", "general", 44),
                                 Name("Groupe Acme SAS", "general", 42) >>),
           FrPage(TRUE, <<SirenOther>>, <<Name("Acme Group SAS", "copyright", 44)>>) }
    [] country = "NL" ->
         { NlNoContent,
           NlPage(<<KvkLeadingZero, KvkSpaced>>, <<>>, <<>>, <<BtwBad, BtwGood>>, <<>>),
           NlPage(<<KvkOther>>, <<>>, <<>>, <<>>, <<Name("Acme B.V.", "title", 67)>>),
           NlPage(<<>>, <<BtwOther>>, <<>>, <<BtwOther, BtwGood>>, <<>>),
           NlPage(<<>>, <<>>, <<>>, <<>>, << Name("Acme Holding B.V.", "footer", 40),
                                           Name("Acme Groep B.V.", "text_search", 44) >>),
           NlPage(<<>>, <<>>, <<LeiLower>>, <<>>, <<Name("Acme B.V.", "title", 67)>>) }
    [] country = "DE" ->
         { DePage(FALSE, <<>>, <<>>), DePage(TRUE, <<>>, <<>>),
           DePage(TRUE, <<St1, Hrb>>, <<>>),
           DePage(TRUE, <<St2, UstLower, Ust, HrbNumber>>, <<>>),
           DePage(TRUE, <<>>, << Name("Acme Deutschland GmbH", "title", 32),
                                 Name("Acme Holding GmbH", "general", 38) >>),
           DePage(TRUE, <<Ust>>, <<Name("Acme Holding GmbH", "copyright", 38)>>) }
    [] OTHER ->
         { LuPage("raise", <<>>), LuPage("404", <<>>), LuPage("200", <<>>),
           LuPage("200", <<LuHit(1, Lu8a), LuHit(2, Lu8b), LuHit(3, Lu6a)>>),
           LuPage("200", <<LuHit(1, Lu8a), LuHit(1, Lu8b)>>),
           LuPage("200", <<LuHit(3, Lu6a), LuHit(3, Lu6b), LuHit(2, Lu8a)>>) }

\* found_siren / found_codes / found_tax_numbers and found_legal_names as
\* search_website_for_info starts
NothingFound ==
  [ siren |-> <<>>, codes |-> [kind \in CodeKinds |-> NoneStr], tax |-> <<>>,
    names |-> <<>> ]

\* the body of "if html_content:" of search_website_for_info, before the
\* test that breaks the loop
ScanPage(country, found, page) ==
  LET names == found.names \o extract_legal_name(country, page)
  IN CASE country = "FR" ->
            [found EXCEPT !.siren = IF Len(@) = 0 THEN extract_siren_from_html(page)
                                    ELSE @,
                          !.names = names]
       [] country = "NL" ->
            LET codes == extract_codes_from_html(page)
            IN [found EXCEPT !.codes = [kind \in CodeKinds |->
                                          IF Truthy(codes[kind]) /\ ~Truthy(@[kind])
                                          THEN codes[kind] ELSE @[kind]],
                             !.names = names]
       [] OTHER ->
            [found EXCEPT !.tax = @ \o extract_tax_number_from_html(page),
                          !.names = names]

\* whether the scan found the identifier the strategy looks for
Identified(country, found) ==
  CASE country = "FR" -> Len(found.siren) > 0
    [] country = "NL" -> Truthy(found.codes["kvk"])
    [] OTHER -> Len(found.tax) > 0

\* the test that breaks the loop of search_website_for_info
ScanBreakNever(country, found) == FALSE
ScanBreak(country, found) == Identified(country, found) /\ Len(found.names) > 0

ScanCountries == {"FR", "NL", "DE", "LU"}
ScanKinds(country) ==
  CASE country = "FR" -> {"siren"}
    [] country = "NL" -> CodeKinds
    [] country = "DE" -> DeKinds
    [] OTHER -> {"vat", "registration_no"}

\* the result dict as the strategy builds it; an identifier not set is <<>>
ScanNewResult(country) ==
  [ status |-> IF country = "LU" THEN "Not Found" ELSE "not_found",
    ids |-> [kind \in ScanKinds(country) |-> <<>>],
    legal_name_website |-> "", search_location |-> "" ]

\* the value of an optional code as the result dict shows it
Shown(code) == IF Truthy(code) THEN code.s ELSE <<>>

\* the result after search_website_for_info has returned: the first legal
\* name, the identifiers, and the status when the identifier was found
ScanResult(country, result, found) ==
  LET named == IF Len(found.names) > 0
               THEN [result EXCEPT !.legal_name_website = found.names[1].name]
               ELSE result
      ids == CASE country = "FR" ->
                    [kind \in {"siren"} |->
                       IF Len(found.siren) > 0 THEN found.siren ELSE <<>>]
               [] country = "NL" -> [kind \in CodeKinds |-> Shown(found.codes[kind])]
               [] OTHER -> Organize(result.ids, found.tax, 1)
  IN IF Identified(country, found)
     THEN [named EXCEPT !.ids = ids, !.status = "found",
                        !.search_location = IF country = "NL" THEN "website_direct"
                                            ELSE "website"]
     ELSE [named EXCEPT !.ids = ids]

InitScan ==
  /\ IdleVal /\ IdleReg /\ IdleOrc /\ IdleNl /\ IdleSt /\ IdleFet /\ IdleTw /\ IdleSim /\ IdleNam /\ IdleBat /\ IdlePt /\ IdleAut
  /\ wCountry \in ScanCountries
  /\ wPc = "scan"
  /\ wFetched = <<>>
  /\ wPages = <<>>
  /\ wFound = NothingFound
  /\ wResult = ScanNewResult(wCountry)
  /\ wLookups = <<>>

\* one turn of the loop of search_website_for_info (FR, NL, DE); after the
\* last path or the break, the function returns and the strategy stores
\* what it found
ScanPath ==
  /\ wPc = "scan" /\ wCountry \in {"FR", "NL", "DE"}
  /\ LET paths == ScanPaths(wCountry)
         k == Len(wFetched) + 1
     IN \E page \in ScanPages(wCountry) :
          /\ k > MaxLivePaths => ~page.content
          /\ LET found == IF page.content THEN ScanPage(wCountry, wFound, page)
                          ELSE wFound
                 over == \/ k = Len(paths)
                         \/ page.content /\ ScanBreak(wCountry, found)
             IN /\ wFetched' = Append(wFetched, paths[k])
                /\ wPages' = Append(wPages, page)
                /\ wFound' = found
                /\ IF ~over THEN wResult' = wResult /\ wPc' = "scan"
                   ELSE /\ wResult' = ScanResult(wCountry, wResult, found)
                        /\ wPc' = IF Identified(wCountry, found) THEN "done"
                                  ELSE IF Len(found.names) > 0 THEN "lookup"
                                  ELSE IF wCountry = "NL" THEN "lei"
                                  ELSE "done"
  /\ UNCHANGED <<wCountry, wLookups, valV, regV, orcV, nlV, stV, fetV, twV, simV, namV, batV, ptV, autV>>

\* the registry lookup with a legal name of the website: the first name
\* (FR, DE), the first three names in turn until one is found (NL); the
\* Unternehmensregister search finds nothing
RegistryLookup ==
  /\ wPc = "lookup"
  /\ LET legal_name == wFound.names[Len(wLookups) + 1].name
         tried == Len(wLookups) + 1
     IN /\ wLookups' = Append(wLookups, legal_name)
        /\ \E hit \in (IF wCountry = "DE" THEN {FALSE} ELSE BOOLEAN) :
             IF hit
             THEN /\ wResult' = [wResult EXCEPT
                       !.ids = [@ EXCEPT ![IF wCountry = "FR" THEN "siren" ELSE "kvk"] = KvkGood],
                       !.status = "found",
                       !.search_location = IF wCountry = "FR"
                                           THEN "annuaire_via_website_name"
                                           ELSE "kvk_via_website_name"]
                  /\ wPc' = "done"
             ELSE /\ wResult' = wResult
                  /\ wPc' = IF wCountry # "NL" THEN "done"
                            ELSE IF tried < Step3Names /\ tried < Len(wFound.names)
                            THEN "lookup" ELSE "lei"
  /\ UNCHANGED <<wCountry, wFetched, wPages, wFound, valV, regV, orcV, nlV, stV, fetV, twV, simV, namV, batV, ptV, autV>>

\* steps 4 and 5 of process_single_dutch_company: the LEI lookups, then the
\* test for the other codes of the website
LeiFallback ==
  /\ wPc = "lei" /\ wCountry = "NL"
  /\ \E hit \in {NoLeiHit, LeiHit(Str(LeiUpper), "Acme Holding B.V.")} :
       wResult' =
         IF Truthy(hit.lei)
         THEN LET r == [wResult EXCEPT !.ids = [@ EXCEPT !["lei"] = hit.lei.s],
                                       !.status = "found_lei_only",
                                       !.search_location = "lei_lookup"]
              IN IF NameTruthy(hit.name) THEN [r EXCEPT !.legal_name_website = hit.name]
                 ELSE r
         ELSE IF Len(wResult.ids["rsin"]) > 0 \/ Len(wResult.ids["btw"]) > 0
         THEN [wResult EXCEPT !.status = "found_partial",
                              !.search_location = "website_other_codes"]
         ELSE [wResult EXCEPT !.status = "not_found",
                              !.search_location = "exhausted_all_methods"]
  /\ wPc' = "done"
  /\ UNCHANGED <<wCountry, wFetched, wPages, wFound, wLookups, valV, regV, orcV, nlV, stV, fetV, twV, simV, namV, batV, ptV, autV>>

\* LuxembourgCompanyExtractor.process_company with a company_url
LuProcess ==
  /\ wPc = "scan" /\ wCountry = "LU"
  /\ \E page \in ScanPages("LU") :
       LET codes == lu_extract_codes_from_html(page)
       IN /\ wPages' = Append(wPages, page)
          /\ wResult' = IF page.get = "200" /\ codes # LuNoCodes
                         THEN [wResult EXCEPT !.ids = codes, !.status = "Found"]
                         ELSE wResult
  /\ wFetched' = Append(wFetched, "")
  /\ wPc' = "done"
  /\ UNCHANGED <<wCountry, wFound, wLookups, valV, regV, orcV, nlV, stV, fetV, twV, simV, namV, batV, ptV, autV>>

NextScan == ScanPath \/ RegistryLookup \/ LeiFallback \/ LuProcess

SpecScan == InitScan /\ [][NextScan]_vars

\* whether a fetched page gave the identifier the scan looks for, and
\* whether it gave a legal-name candidate
PageHasId(country, page) ==
  /\ page.content
  /\ CASE country = "FR" -> Len(extract_siren_from_html(page)) > 0
       [] country = "NL" -> Truthy(extract_codes_from_html(page)["kvk"])
       [] OTHER -> Len(extract_tax_number_from_html(page)) > 0
PageHasName(page) == page.content /\ Len(page.names) > 0
\* the results accumulated over the first k fetched paths hold both
BothAfter(k) ==
  /\ \E j \in 1..k : PageHasId(wCountry, wPages[j])
  /\ \E j \in 1..k : PageHasName(wPages[j])

AllCandidates ==
  UNION { {wPages[j].names[i] : i \in 1..Len(wPages[j].names)} :
          j \in {j \in 1..Len(wPages) : wPages[j].content} }
\* the website step ended with a candidate and without the identifier
NameWithoutId ==
  /\ wCountry \in {"FR", "NL"} /\ wPc \in {"lookup", "lei", "done"}
  /\ Len(wFound.names) > 0 /\ ~Identified(wCountry, wFound)

\* C19: when the website step ends with at least one legal-name candidate
\* and no identifier, the strategy performs a second registry lookup, and
\* the name looked up (FR: the only one, NL: the first one tried), which is
\* also reported as legal_name_website, is the candidate with the highest
\* similarity to the query name among all candidates collected over all
\* probed paths.
C19_LookupUsesBestCandidate ==
  /\ NameWithoutId /\ wPc # "lookup" => Len(wLookups) > 0
  /\ NameWithoutId /\ Len(wLookups) > 0
     => /\ \E best \in AllCandidates :
             /\ best.name = wLookups[1]
             /\ \A cand \in AllCandidates : cand.sim <= best.sim
        /\ wResult.search_location # "lei_lookup"
           => wResult.legal_name_website = wLookups[1]

\* the valid matches of an identifier kind on a page, in the order the
\* extractor meets them (pattern-list order, then document order)
ValidMatches(country, kind, page) ==
  IF ~page.content THEN <<>>
  ELSE CASE country = "NL" ->
              SelectSeq([k \in 1..Len(page[kind]) |-> CleanCodeOf(kind, page[kind][k])],
                        LAMBDA c : CodePasses(kind, Str(c)))
         [] country = "DE" ->
              LET typed == SelectSeq(extract_tax_number_from_html(page),
                                     LAMBDA t : DeKey(t.type) = kind)
              IN [k \in 1..Len(typed) |-> typed[k].number]
         [] OTHER ->
              LET own == SelectSeq(page.hits, LAMBDA h :
                           IF kind = "vat" THEN h.pattern = 1 /\ Len(h.code) = 8
                           ELSE h.pattern = 3 /\ Len(h.code) = 6)
              IN [k \in 1..Len(own) |->
                    (IF kind = "vat" THEN <<"L", "U">> ELSE <<"B">>) \o own[k].code]
\* ... over the first n fetched paths, in path order
RECURSIVE MatchesMet(_, _)
MatchesMet(kind, n) ==
  IF n = 0 THEN <<>>
  ELSE MatchesMet(kind, n - 1) \o ValidMatches(wCountry, kind, wPages[n])

\* C20: for each identifier kind, the value reported in the outcome is the
\* first valid match met, in pattern-list order, then document order, then
\* path order; a later match of the same kind never replaces it (NL: kvk,
\* rsin, lei, btw; DE: steuernummer, ust_idnr, handelsregister; LU: vat,
\* registration_no).
C20_FirstValidMatchReported ==
  wCountry \in {"NL", "DE", "LU"} /\ wPc = "done"
  => \A kind \in ScanKinds(wCountry) :
       LET met == MatchesMet(kind, Len(wPages))
       IN Len(met) > 0 => wResult.ids[kind] = met[1]

-----------------------------------------------------------------------------
(* The Legal Name Extractors: extract_legal_name_structured_approach (FR,   *)
(* DE), extract_legal_name_italian_approach, extract_legal_name_from_website *)
(* (NL), and the single-name extractors of AT, CH and UK                    *)

\* the texts a page can carry and self.similarity(text, "Acme") in percent
Raw(name, sim) == [name |-> name, sim |-> sim]
RawGroup == Raw("Acme Group SAS", 44)
RawGroupe == Raw("Groupe Acme SAS", 42)
RawFrance == Raw("Acme France SAS", 42)
RawMace == Raw("Mace Holding Company SAS", 21)
RawZeta == Raw("Zeta Industrie SAS", 9)

\* a script element of type application/ld+json: its text is valid JSON of
\* the expected shape ("ok"), is not JSON ("invalid_json"), is missing
\* (script.string is None, "empty_script"), or holds an object whose @type
\* or name is not a string ("bad_shape")
Block(kind, raw) == [kind |-> kind, raw |-> raw]
BlockLists ==
  { <<>>, <<Block("ok", RawGroupe)>>, <<Block("invalid_json", RawZeta)>>,
    <<Block("empty_script", RawZeta)>>, <<Block("bad_shape", RawZeta)>>,
    <<Block("invalid_json", RawZeta), Block("ok", RawFrance)>> }

\* what a page carries for each source of the extractor, before any filter
Docs ==
  [ kind : {"page"},
    title : {<<>>, <<RawFrance>>, <<RawMace>>},
    meta : {<<>>, <<RawGroup>>},
    jsonld : BlockLists,
    footer_vat : {<<>>, <<RawZeta>>},
    footer : {<<>>, <<RawFrance>>},
    general : {<<>>, <<RawFrance, RawZeta, RawGroupe>>} ]

ListCountries == {"FR", "DE", "IT", "NL"}
BestCountries == {"AT", "CH", "GB"}

\* the similarity a candidate must exceed, in percent
Floor(country) == IF country = "NL" THEN 20 ELSE 30

\* the test every source applies before found_names.append
PassesNoFloor(country, raw, longest) ==
  /\ Len(raw.name) >= (IF country = "NL" THEN 5 ELSE 10)
  /\ Len(raw.name) <= (IF country = "NL" THEN 150 ELSE longest)
Passes(country, raw, longest) ==
  /\ Len(raw.name) >= (IF country = "NL" THEN 5 ELSE 10)
  /\ Len(raw.name) <= (IF country = "NL" THEN 150 ELSE longest)
  /\ raw.sim > Floor(country)

\* the found_names entries of one source
FromSource(country, raws, source, longest) ==
  LET kept == SelectSeq(raws, LAMBDA raw : Passes(country, raw, longest))
  IN [k \in 1..Len(kept) |-> Name(kept[k].name, source, kept[k].sim)]

\* the footer of the Italian extractor: the name next to the VAT code is
\* appended after the length test only
FooterWithVat(raws) ==
  LET kept == SelectSeq(raws, LAMBDA raw : PassesNoFloor("IT", raw, 100))
  IN [k \in 1..Len(kept) |-> Name(kept[k].name, "footer_with_vat", kept[k].sim)]

\* the JSON-LD loop: json.JSONDecodeError is caught and the block skipped;
\* json.loads(None) raises TypeError and a non-string @type or name raises
\* AttributeError, which the loop does not catch
JsonLdRaises(blocks) ==
  \E k \in 1..Len(blocks) : blocks[k].kind \in {"empty_script", "bad_shape"}
FromJsonLd(country, blocks) ==
  LET ok == SelectSeq(blocks, LAMBDA b : b.kind = "ok")
  IN FromSource(country, [k \in 1..Len(ok) |-> ok[k].raw],
                IF country = "NL" THEN "json-ld:legalName" ELSE "json-ld", 100)

\* found_names in the order the sources are read
found_names(country, doc) ==
  FromSource(country, doc.title, "title", 100)
  \o FromSource(country, doc.meta,
                IF country = "NL" THEN "meta:og:site_name" ELSE "og:site_name", 100)
  \o FromJsonLd(country, doc.jsonld)
  \o (IF country = "IT" THEN FooterWithVat(doc.footer_vat) ELSE <<>>)
  \o FromSource(country, doc.footer, "copyright", 100)
  \o FromSource(country, doc.general,
                CASE country = "NL" -> "text_search" [] country = "IT" -> "end_of_page"
                  [] OTHER -> "general", 150)

NamesReturned(names) == [called |-> TRUE, raised |-> FALSE, names |-> names]
NamesRaised == [called |-> TRUE, raised |-> TRUE, names |-> <<>>]

\* the Legal Name Extractor of FR, DE, IT and NL
legal_names(country, doc) ==
  IF JsonLdRaises(doc.jsonld) THEN NamesRaised
  ELSE NamesReturned(extract_legal_name(country, [names |-> found_names(country, doc)]))

\* the place of a text, and of a source label, in Python's string order
StrRank(text) ==
  CASE text = "Acme France SAS" -> 1 [] text = "Acme Group SAS" -> 2
    [] text = "Groupe Acme SAS" -> 3 [] text = "Mace Holding Company SAS" -> 4
    [] text = "info_section" -> 5 [] text = "pattern_match" -> 6
    [] text = "title" -> 7 [] OTHER -> 8

\* found_names of extract_legal_name_with_austrian_suffixes (AT),
\* extract_legal_name_structured_approach (CH) and
\* extract_legal_name_from_website (UK): the texts of the tags that hold a
\* legal suffix, and for the UK the pattern matches above 0.3
Tagged(raws, source) == [k \in 1..Len(raws) |-> Name(raws[k].name, source, raws[k].sim)]
best_found_names(country, doc) ==
  IF country = "GB"
  THEN Tagged(doc.title, "title") \o Tagged(doc.footer, "info_section")
       \o Tagged(SelectSeq(doc.general, LAMBDA raw : Len(raw.name) > 3 /\ raw.sim > 30),
                 "pattern_match")
  ELSE Tagged(doc.title \o doc.footer_vat \o doc.footer, "tag")

\* scored_names.sort(reverse=True) and scored_names[0]: the largest tuple
\* (score, name), or (score, source, name) for the UK
Larger(country, a, b) ==
  \/ a.sim > b.sim
  \/ /\ a.sim = b.sim /\ country = "GB" /\ StrRank(a.source) > StrRank(b.source)
  \/ /\ a.sim = b.sim /\ (country # "GB" \/ a.source = b.source)
     /\ StrRank(a.name) >= StrRank(b.name)
best_name(country, doc, company_name) ==
  LET names == best_found_names(country, doc)
      all == {names[k] : k \in 1..Len(names)}
  IN IF Len(names) = 0 THEN Name(company_name, "company_name", 100)
     ELSE CHOOSE best \in all : \A other \in all : Larger(country, best, other)

InitNames ==
  /\ IdleVal /\ IdleReg /\ IdleOrc /\ IdleNl /\ IdleSt /\ IdleFet /\ IdleTw /\ IdleSim /\ IdleScn /\ IdleBat /\ IdlePt /\ IdleAut
  /\ lnCountry \in ListCountries \cup BestCountries
  /\ lnDoc \in Docs
  /\ lnOut = [called |-> FALSE]
  /\ lnFound = <<>>

\* search_website_for_info reads a page: the extractor is called and its
\* list appended to found_legal_names; an exception ends the page
ExtractList ==
  /\ lnCountry \in ListCountries /\ ~lnOut.called
  /\ lnOut' = legal_names(lnCountry, lnDoc)
  /\ lnFound' = IF lnOut'.raised THEN lnFound ELSE lnFound \o lnOut'.names
  /\ UNCHANGED <<lnCountry, lnDoc, valV, regV, orcV, nlV, stV, fetV, twV, simV, scnV, batV, ptV, autV>>

\* the website step of AT, CH and UK: the one name the extractor returns
ExtractBest ==
  /\ lnCountry \in BestCountries /\ ~lnOut.called
  /\ lnOut' = NamesReturned(<<best_name(lnCountry, lnDoc, StName)>>)
  /\ lnFound' = lnOut'.names
  /\ UNCHANGED <<lnCountry, lnDoc, valV, regV, orcV, nlV, stV, fetV, twV, simV, scnV, batV, ptV, autV>>

NextNames == ExtractList \/ ExtractBest

SpecNames == InitNames /\ [][NextNames]_vars

\* C21: every legal-name candidate returned by a Legal Name Extractor,
\* whatever its source, has similarity to the query name strictly above the
\* floor of the jurisdiction; a candidate at or below the floor is never
\* returned, also by the AT, CH and UK extractors.
C21_ReturnedAboveFloor ==
  lnOut.called /\ ~lnOut.raised
  => \A k \in 1..Len(lnOut.names) : lnOut.names[k].sim > Floor(lnCountry)

\* the rank of a source in the priority structured-data, meta, title,
\* footer, generic
SourcePriority(source) ==
  CASE source \in {"json-ld", "json-ld:legalName"} -> 1
    [] source \in {"og:site_name", "meta:og:site_name"} -> 2
    [] source = "title" -> 3
    [] source \in {"copyright", "footer_with_vat"} -> 4
    [] OTHER -> 5

\* C22: the list returned by a Legal Name Extractor (FR, DE, NL) holds each
\* candidate text once and is ordered by similarity to the query
\* descending; two candidates of equal similarity are ordered by source
\* priority structured-data before meta before title before footer before
\* generic.
C22_UniqueSortedWithSourcePriority ==
  lnOut.called /\ ~lnOut.raised /\ lnCountry \in {"FR", "DE", "NL"}
  => \A i, j \in 1..Len(lnOut.names) :
       i < j => /\ lnOut.names[i].name # lnOut.names[j].name
                /\ lnOut.names[i].sim >= lnOut.names[j].sim
                /\ lnOut.names[i].sim = lnOut.names[j].sim
                   => SourcePriority(lnOut.names[i].source)
                        <= SourcePriority(lnOut.names[j].source)

\* the part of C22 without the tie-break: each text once, similarity
\* descending
UniqueAndSorted ==
  lnOut.called /\ ~lnOut.raised /\ lnCountry \in ListCountries
  => \A i, j \in 1..Len(lnOut.names) :
       i < j => /\ lnOut.names[i].name # lnOut.names[j].name
                /\ lnOut.names[i].sim >= lnOut.names[j].sim

\* the page has a structured-data block that cannot be used
UnusableBlock ==
  \E k \in 1..Len(lnDoc.jsonld) : lnDoc.jsonld[k].kind # "ok"
\* the candidates of the title, meta, footer and generic sources of the page
\* that pass the tests of the extractor
OtherSourceNames ==
  LET raws == lnDoc.title \o lnDoc.meta \o lnDoc.footer
  IN {raws[k].name : k \in {k \in 1..Len(raws) : Passes(lnCountry, raws[k], 100)}}
     \cup {lnDoc.general[k].name :
             k \in {k \in 1..Len(lnDoc.general) : Passes(lnCountry, lnDoc.general[k], 150)}}

\* C24: when an embedded structured-data block of a page cannot be used
\* (invalid JSON, empty script element, or a value of unexpected shape), the
\* Legal Name Extractor skips that block only: the candidates from the
\* title, meta, footer and generic sources of the same page are still
\* returned and added to the accumulated legal names of the strategy.
C24_BadBlockSkippedOnly ==
  lnOut.called /\ lnCountry \in ListCountries /\ UnusableBlock
  => /\ ~lnOut.raised
     /\ \A name \in OtherSourceNames :
          /\ \E k \in 1..Len(lnOut.names) : lnOut.names[k].name = name
          /\ \E k \in 1..Len(lnFound) : lnFound[k].name = name

\* the same for the blocks that are not valid JSON
InvalidJsonSkippedOnly ==
  /\ lnOut.called /\ lnCountry \in ListCountries
  /\ \A k \in 1..Len(lnDoc.jsonld) : lnDoc.jsonld[k].kind \in {"ok", "invalid_json"}
  => /\ ~lnOut.raised
     /\ \A name \in OtherSourceNames :
          \E k \in 1..Len(lnFound) : lnFound[k].name = name

-----------------------------------------------------------------------------
(* The legal name of the outcomes of the UK and CH strategies               *)

\* C23: the legal_name of every outcome returned by the UK and CH
\* strategies (and the AT, PT, LU ones and the orchestrator) is non-empty:
\* it equals the company name of the query whenever no step produced a
\* non-empty legal name, including when the registry page or search result
\* yields an empty name.
C23_LegalNameNeverEmpty ==
  stPc = "done" /\ stCountry \in {"GB", "CH"}
  => stResult.legal_name # ""

-----------------------------------------------------------------------------
(* The statuses of the NL and CH outcomes                                   *)

\* the NL resolution ended without a KvK number and without a LEI from the
\* lookup, and the website scan gave a valid RSIN or BTW
OnlyOtherCodes ==
  /\ nlPc = "done" /\ ~Truthy(nlResult.kvk_number)
  /\ nlResult.search_location # "lei_lookup"
  /\ nlResult.status \notin {"no_website", "error"}
  /\ Truthy(nlFound.codes["rsin"]) \/ Truthy(nlFound.codes["btw"])

\* C25: in the NL strategy, when no step yields a KvK number and the LEI
\* lookup yields nothing, but the website scan yielded a valid RSIN or BTW,
\* the outcome has status found_partial and search_location
\* website_other_codes and carries those RSIN/BTW values; status found is
\* given only when a KvK number is present.
C25_PartialOnOtherCodes ==
  /\ OnlyOtherCodes
     => /\ nlResult.status = "found_partial"
        /\ nlResult.search_location = "website_other_codes"
        /\ nlResult.rsin = nlFound.codes["rsin"]
        /\ nlResult.btw = nlFound.codes["btw"]
        /\ \A kind \in {"rsin", "btw"} :
             Truthy(nlFound.codes[kind]) => CodePasses(kind, nlFound.codes[kind])
  /\ nlResult.status = "found" => Truthy(nlResult.kvk_number)

C25_Witness ==
  /\ OnlyOtherCodes /\ nlResult.status = "found_partial"
  /\ Truthy(nlResult.btw) /\ ~Truthy(nlResult.lei)

\* C27: an outcome whose status is the not-found status carries no
\* identifier value: in the NL strategy kvk_number, rsin, lei and btw are
\* all empty when status is not_found, and in the CH strategy uid and ch_id
\* are both empty when status is 'Not Found', whatever the website scan
\* returned.
C27_NotFoundCarriesNoIdentifier ==
  /\ nlPc = "done" /\ nlResult.status = "not_found"
     => /\ ~Truthy(nlResult.kvk_number) /\ ~Truthy(nlResult.rsin)
        /\ ~Truthy(nlResult.lei) /\ ~Truthy(nlResult.btw)
  /\ stPc = "done" /\ stCountry = "CH" /\ stResult.status = "Not Found"
     => Len(stResult.uid) = 0 /\ Len(stResult.ch_id) = 0

-----------------------------------------------------------------------------
(* Country names in the batch loop                                          *)

\* the codes of the supported countries whose full name the cell holds, in
\* any letter case
NamedCountries(cell) ==
  {nk[2] : nk \in {nk \in CodeByName : UpperStr(nk[1]) = UpperStr(Strip(PyStr(cell)))}}

\* C26: in the batch loop, a row whose country cell holds the full name of
\* a supported country in any letter case is dispatched to the extractor of
\* that country, the same as a row holding its two-letter code.
C26_FullCountryNameDispatched ==
  (oMode = "batch" /\ cols.country)
  => \A i \in 1..idx :
       \A code \in NamedCountries(df[i].country) : log[i].extractor = code

\* a row holding the two-letter code is dispatched to that extractor
TwoLetterCodeDispatched ==
  (oMode = "batch" /\ cols.country)
  => \A i \in 1..idx :
       df[i].country \in {"NL", " nl "} => log[i].extractor = "NL"

(***************************************************************************)
(* Successive batch calls on one extractor instance.                       *)
(*   process_dutch_companies / process_french_companies /                  *)
(*   process_german_companies / process_italian_companies append every     *)
(*   outcome to self.results and return self.results;                      *)
(*   process_portfolio_companies (AT, CH, UK, PT, LU) starts with          *)
(*   self.results = [] and skips the entries without a name.               *)
(* What a single company resolves to is decided elsewhere; here an outcome *)
(* is identified by the company it belongs to.                             *)
(***************************************************************************)
MaxCalls == 2
MaxBatch == 2

AppendCountries == {"NL", "FR", "DE", "IT"}
ResetCountries  == {"AT", "CH", "GB", "PT", "LU"}

BatchNames(country) ==
  IF country \in ResetCountries THEN {"Acme", "Beta", ""} ELSE {"Acme", "Beta"}
BatchLists(country) == UNION {[1..n -> BatchNames(country)] : n \in 0..MaxBatch}

BatchOutcome(company) == [company_name |-> company]

\* the outcomes of the companies of one call, in the order of the call
Outcomes(companies) ==
  [i \in 1..Len(companies) |-> BatchOutcome(companies[i])]

Named(o) == o.company_name # ""

\* self.results after process_<country>_companies(companies), which is also
\* the list the call returns
process_country_companies(self_results, companies) ==
  self_results \o Outcomes(companies)

\* self.results after process_portfolio_companies(companies_data), which is
\* also the list the call returns
process_portfolio_companies(self_results, companies) ==
  SelectSeq(Outcomes(companies), Named)

InitBatch ==
  /\ IdleVal /\ IdleReg /\ IdleOrc /\ IdleNl /\ IdleSt /\ IdleFet /\ IdleTw /\ IdleSim /\ IdleScn /\ IdleNam /\ IdlePt /\ IdleAut
  /\ bCountry \in AppendCountries \cup ResetCountries
  /\ bSelf = <<>> /\ bCalls = <<>>

BatchCall ==
  /\ bCountry \in AppendCountries
  /\ Len(bCalls) < MaxCalls
  /\ \E companies \in BatchLists(bCountry) :
       LET r == process_country_companies(bSelf, companies)
       IN  /\ bSelf' = r
           /\ bCalls' = Append(bCalls, [outcomes |-> Outcomes(companies),
                                        returned |-> r])
  /\ UNCHANGED <<bCountry, valV, regV, orcV, nlV, stV, fetV, twV, simV, scnV, namV, ptV, autV>>

PortfolioCall ==
  /\ bCountry \in ResetCountries
  /\ Len(bCalls) < MaxCalls
  /\ \E companies \in BatchLists(bCountry) :
       LET r == process_portfolio_companies(bSelf, companies)
       IN  /\ bSelf' = r
           /\ bCalls' = Append(bCalls, [outcomes |-> Outcomes(companies),
                                        returned |-> r])
  /\ UNCHANGED <<bCountry, valV, regV, orcV, nlV, stV, fetV, twV, simV, scnV, namV, ptV, autV>>

NextBatch == BatchCall \/ PortfolioCall

SpecBatch == InitBatch /\ [][NextBatch]_vars

\* C28: the list a batch call returns holds exactly the outcomes of the
\* companies passed to that call (the entries without a name, which
\* process_portfolio_companies skips, aside), also when the instance has
\* processed an earlier batch.
C28_BatchReturnsOwnOutcomes ==
  \A i \in 1..Len(bCalls) :
    bCalls[i].returned = SelectSeq(bCalls[i].outcomes, Named)

\* the part of C28 the code keeps: the first call on an instance, and every
\* call of process_portfolio_companies, returns its own outcomes only
FirstOrPortfolioReturnsOwnOutcomes ==
  \A i \in 1..Len(bCalls) :
    (i = 1 \/ bCountry \in ResetCountries) =>
      bCalls[i].returned = SelectSeq(bCalls[i].outcomes, Named)

(***************************************************************************)
(* PT: process_company_improved and its five strategies.                   *)
(*   search_einforma_direct_url, search_einforma_with_requests and         *)
(*   search_alternative_sources catch every exception and come back with   *)
(*   results or without.  search_einforma_selenium_improved tries the top  *)
(*   results of the browser search in turn; when driver.back() fails in    *)
(*   the loop body and again in the handler, it reloads the home page and  *)
(*   calls itself.  Python ends that nesting with a RecursionError, which  *)
(*   the innermost "except Exception" turns into None; MaxDepth stands for *)
(*   the recursion limit.                                                  *)
(***************************************************************************)
MaxResults == 2
MaxDepth == 2

PtTopResults == 3

Strategies == {"direct", "requests", "selenium", "alternative", "website"}

Run(s) == [pRuns EXCEPT ![s] = @ + 1]

PtFound(method, status) == [status |-> status, search_method |-> method]
PtNotFound == [status |-> "Not Found", search_method |-> ""]

PtTried == IF pN < PtTopResults THEN pN ELSE PtTopResults

InitPt ==
  /\ IdleVal /\ IdleReg /\ IdleOrc /\ IdleNl /\ IdleSt /\ IdleFet /\ IdleTw /\ IdleSim /\ IdleScn /\ IdleNam /\ IdleBat /\ IdleAut
  /\ pPc = "direct" /\ pUrl \in BOOLEAN
  /\ pRuns = [s \in Strategies |-> 0]
  /\ pDepth = 0 /\ pN = 0 /\ pI = 0
  /\ pResult = [status |-> ""]

\* Strategy 1
search_einforma_direct_url ==
  /\ pPc = "direct"
  /\ pRuns' = Run("direct")
  /\ \E hit \in BOOLEAN :
       IF hit
       THEN pPc' = "done" /\ pResult' = PtFound("einforma_direct", "Found")
       ELSE pPc' = "requests" /\ UNCHANGED pResult
  /\ UNCHANGED <<pUrl, pDepth, pN, pI, valV, regV, orcV, nlV, stV, fetV, twV, simV, scnV, namV, batV, autV>>

\* Strategy 2
search_einforma_with_requests ==
  /\ pPc = "requests"
  /\ pRuns' = Run("requests")
  /\ \E hit \in BOOLEAN :
       IF hit
       THEN pPc' = "done" /\ pResult' = PtFound("einforma_requests", "Found")
       ELSE pPc' = "selenium" /\ UNCHANGED pResult
  /\ UNCHANGED <<pUrl, pDepth, pN, pI, valV, regV, orcV, nlV, stV, fetV, twV, simV, scnV, namV, batV, autV>>

\* Strategy 3, up to the list of company results: the driver, the search
\* field or the search may fail, or no result link is found (None), or
\* company_results holds n links
search_einforma_selenium_improved ==
  /\ pPc = "selenium"
  /\ pRuns' = Run("selenium")
  /\ \E n \in 0..MaxResults :
       /\ pN' = n /\ pI' = 0
       /\ pPc' = IF n = 0 THEN "alternative" ELSE "results"
  /\ UNCHANGED <<pUrl, pDepth, pResult, valV, regV, orcV, nlV, stV, fetV, twV, simV, scnV, namV, batV, autV>>

\* the handler of the loop body when driver.back() has failed there: a second
\* driver.back(); when that fails too, the home page is loaded and the search
\* calls itself
BackFailed(back_ok, get_ok) ==
  IF back_ok
  THEN pI' = pI + 1 /\ UNCHANGED <<pPc, pDepth, autV>>
  ELSE IF get_ok /\ pDepth < MaxDepth
       THEN pPc' = "selenium" /\ pDepth' = pDepth + 1 /\ UNCHANGED pI
       ELSE pPc' = "alternative" /\ UNCHANGED <<pI, pDepth, autV>>

\* one turn of "for i, result in enumerate(company_results[:3])"
TryResult ==
  /\ pPc = "results" /\ pI < PtTried
  /\ \E nif, back1, back2, get_ok \in BOOLEAN :
       IF nif
       THEN /\ pPc' = "done" /\ pResult' = PtFound("einforma_selenium", "Found")
            /\ UNCHANGED <<pI, pDepth, autV>>
       ELSE /\ UNCHANGED pResult
            /\ IF pI < pN - 1 /\ ~back1
               THEN BackFailed(back2, get_ok)
               ELSE pI' = pI + 1 /\ UNCHANGED <<pPc, pDepth, autV>>
  /\ UNCHANGED <<pUrl, pRuns, pN, valV, regV, orcV, nlV, stV, fetV, twV, simV, scnV, namV, batV, autV>>

\* the loop is over: return None
ResultsExhausted ==
  /\ pPc = "results" /\ pI >= PtTried
  /\ pPc' = "alternative"
  /\ UNCHANGED <<pUrl, pRuns, pDepth, pN, pI, pResult, valV, regV, orcV, nlV, stV, fetV, twV, simV, scnV, namV, batV, autV>>

\* Strategy 4
search_alternative_sources ==
  /\ pPc = "alternative"
  /\ pRuns' = Run("alternative")
  /\ \E hit \in BOOLEAN :
       IF hit
       THEN pPc' = "done" /\ pResult' = PtFound("alternative", "Found (Alternative)")
       ELSE IF pUrl
            THEN pPc' = "website" /\ UNCHANGED pResult
            ELSE pPc' = "done" /\ pResult' = PtNotFound
  /\ UNCHANGED <<pUrl, pDepth, pN, pI, valV, regV, orcV, nlV, stV, fetV, twV, simV, scnV, namV, batV, autV>>

\* Strategy 5
WebsiteExtraction ==
  /\ pPc = "website"
  /\ pRuns' = Run("website")
  /\ pPc' = "done"
  /\ \E nif \in BOOLEAN :
       pResult' = IF nif THEN PtFound("website_extraction", "Found (Website)")
                  ELSE PtNotFound
  /\ UNCHANGED <<pUrl, pDepth, pN, pI, valV, regV, orcV, nlV, stV, fetV, twV, simV, scnV, namV, batV, autV>>

NextPt ==
  \/ search_einforma_direct_url
  \/ search_einforma_with_requests
  \/ search_einforma_selenium_improved
  \/ TryResult
  \/ ResultsExhausted
  \/ search_alternative_sources
  \/ WebsiteExtraction

SpecPt == InitPt /\ [][NextPt]_vars

\* C29: within one call of process_company_improved every strategy (direct
\* URL, form request, browser search, alternative source, website) is run at
\* most once, whatever the browser does.
C29_EachStrategyAtMostOnce ==
  \A s \in Strategies : pRuns[s] <= 1

\* the part of C29 the code keeps: the four strategies other than the browser
\* search are run at most once, and the browser search at most once when
\* driver.back() never fails twice in a row
OtherStrategiesAtMostOnce ==
  /\ \A s \in Strategies \ {"selenium"} : pRuns[s] <= 1
  /\ pDepth = 0 => pRuns["selenium"] <= 1
  /\ pRuns["selenium"] <= pDepth + 1

(***************************************************************************)
(* The login-code logic of the hosted tool: AuthenticationManager.         *)
(*   st.session_state.auth_codes maps an e-mail to the code stored for it, *)
(*   the time it was stored and the failed attempts against it; a deleted  *)
(*   key is NoCode.  Every store_code call issues a record of its own,     *)
(*   numbered by "id" so that a later code with the same digits is not     *)
(*   mistaken for an earlier one.  Time is in minutes.                     *)
(***************************************************************************)
MaxStores == 2
MaxTicks == 2

CODE_EXPIRY_MINUTES == 10
SESSION_TIMEOUT_MINUTES == 60
MaxAttempts == 3

Emails == {"ann@arkap.ch", "bob@arkap.ch"}
LoginCodes == {"111111", "222222"}
TickSizes == {CODE_EXPIRY_MINUTES, SESSION_TIMEOUT_MINUTES}

NoCode == [id |-> 0]
LoggedOut == [authenticated |-> FALSE, user_email |-> "", auth_time |-> -1]

\* auth_codes after store_code(e, c)
store_code(codes, now, id, e, c) ==
  [codes EXCEPT ![e] = [id |-> id, code |-> c, timestamp |-> now, attempts |-> 0]]

\* verify(e, c) without the test of the failed attempts
verify_any_attempts(codes, auth, now, e, c) ==
  LET d == codes[e]
      deleted == [codes EXCEPT ![e] = NoCode]
  IN  IF d = NoCode
      THEN [codes |-> codes, auth |-> auth, ok |-> FALSE, msg |-> "No code"]
      ELSE IF now - d.timestamp > CODE_EXPIRY_MINUTES
      THEN [codes |-> deleted, auth |-> auth, ok |-> FALSE, msg |-> "Expired"]
      ELSE IF d.code = c
      THEN [codes |-> deleted,
            auth |-> [authenticated |-> TRUE, user_email |-> e, auth_time |-> now],
            ok |-> TRUE, msg |-> "Success"]
      ELSE [codes |-> [codes EXCEPT ![e].attempts = @ + 1], auth |-> auth,
            ok |-> FALSE, msg |-> "left"]

\* verify(e, c): auth_codes and the session afterwards, and the pair returned
verify(codes, auth, now, e, c) ==
  LET d == codes[e]
      deleted == [codes EXCEPT ![e] = NoCode]
  IN  IF d = NoCode
      THEN [codes |-> codes, auth |-> auth, ok |-> FALSE, msg |-> "No code"]
      ELSE IF now - d.timestamp > CODE_EXPIRY_MINUTES
      THEN [codes |-> deleted, auth |-> auth, ok |-> FALSE, msg |-> "Expired"]
      ELSE IF d.attempts >= MaxAttempts
      THEN [codes |-> deleted, auth |-> auth, ok |-> FALSE, msg |-> "Too many"]
      ELSE IF d.code = c
      THEN [codes |-> deleted,
            auth |-> [authenticated |-> TRUE, user_email |-> e, auth_time |-> now],
            ok |-> TRUE, msg |-> "Success"]
      ELSE [codes |-> [codes EXCEPT ![e].attempts = @ + 1], auth |-> auth,
            ok |-> FALSE, msg |-> "left"]

is_valid(auth, now) ==
  /\ auth.authenticated
  /\ auth.auth_time # -1
  /\ now - auth.auth_time <= SESSION_TIMEOUT_MINUTES

InitAuth ==
  /\ IdleVal /\ IdleReg /\ IdleOrc /\ IdleNl /\ IdleSt /\ IdleFet /\ IdleTw /\ IdleSim /\ IdleScn /\ IdleNam /\ IdleBat /\ IdlePt
  /\ aNow = 0 /\ aTicks = 0
  /\ aCodes = [e \in Emails |-> NoCode]
  /\ aAuth = LoggedOut
  /\ aLast = [op |-> "init", e |-> "", c |-> "", ok |-> FALSE, msg |-> ""]
  /\ aDead = {} /\ aIssued = 0

\* time passes between two calls
Tick ==
  /\ aTicks < MaxTicks
  /\ \E d \in TickSizes : aNow' = aNow + d
  /\ aTicks' = aTicks + 1
  /\ UNCHANGED <<aCodes, aAuth, aLast, aDead, aIssued, valV, regV, orcV, nlV, stV, fetV, twV, simV, scnV, namV, batV, ptV>>

StoreCode ==
  /\ aIssued < MaxStores
  /\ \E e \in Emails, c \in LoginCodes :
       /\ aCodes' = store_code(aCodes, aNow, aIssued + 1, e, c)
       /\ aLast' = [op |-> "store_code", e |-> e, c |-> c, ok |-> TRUE, msg |-> ""]
  /\ aIssued' = aIssued + 1
  /\ UNCHANGED <<aNow, aTicks, aAuth, aDead, valV, regV, orcV, nlV, stV, fetV, twV, simV, scnV, namV, batV, ptV>>

Verify ==
  /\ \E e \in Emails, c \in LoginCodes :
       LET r == verify(aCodes, aAuth, aNow, e, c)
           d == aCodes[e]
       IN  /\ aCodes' = r.codes
           /\ aAuth' = r.auth
           /\ aLast' = [op |-> "verify", e |-> e, c |-> c, ok |-> r.ok, msg |-> r.msg]
           /\ aDead' = IF r.ok \/ (r.msg = "left" /\ r.codes[e].attempts >= MaxAttempts)
                       THEN aDead \cup {d.id}
                       ELSE aDead
  /\ UNCHANGED <<aNow, aTicks, aIssued, valV, regV, orcV, nlV, stV, fetV, twV, simV, scnV, namV, batV, ptV>>

IsValid ==
  /\ aLast' = [op |-> "is_valid", e |-> "", c |-> "", ok |-> is_valid(aAuth, aNow), msg |-> ""]
  /\ UNCHANGED <<aNow, aTicks, aCodes, aAuth, aDead, aIssued, valV, regV, orcV, nlV, stV, fetV, twV, simV, scnV, namV, batV, ptV>>

Logout ==
  /\ aAuth' = LoggedOut
  /\ aLast' = [op |-> "logout", e |-> "", c |-> "", ok |-> TRUE, msg |-> ""]
  /\ UNCHANGED <<aNow, aTicks, aCodes, aDead, aIssued, valV, regV, orcV, nlV, stV, fetV, twV, simV, scnV, namV, batV, ptV>>

NextAuth == Tick \/ StoreCode \/ Verify \/ IsValid \/ Logout

SpecAuth == InitAuth /\ [][NextAuth]_vars

\* a step in which the session becomes authenticated
Authenticates == aAuth'.authenticated /\ (~aAuth.authenticated \/ aAuth' # aAuth)

\* C30: the session becomes authenticated only by a verify(e, c) in which c
\* is the code currently stored for e, that code is at most
\* CODE_EXPIRY_MINUTES old and has fewer than three failed verifications
\* against it; a code that has authenticated once, has expired or has
\* collected three failures does not authenticate.
C30_OnlyFreshStoredCodeAuthenticates ==
  [][ Authenticates =>
        /\ aLast'.op = "verify" /\ aLast'.ok
        /\ aAuth'.user_email = aLast'.e
        /\ aCodes[aLast'.e] # NoCode
        /\ aCodes[aLast'.e].code = aLast'.c
        /\ aNow - aCodes[aLast'.e].timestamp <= CODE_EXPIRY_MINUTES
        /\ aCodes[aLast'.e].attempts < MaxAttempts
        /\ aCodes[aLast'.e].id \notin aDead ]_vars

\* a verification has just succeeded while an earlier stored code had already
\* authenticated or collected three failures
C30_Witness ==
  /\ aLast.op = "verify" /\ aLast.ok /\ aAuth.authenticated
  /\ Cardinality(aDead) >= 2

=============================================================================
